---------------------------- MODULE Spec2Model ----------------------------
(***************************************************************************)
(* Model of the test-run ingestion backend (MongoDB, modular variant):     *)
(* start-up (connectDatabase / createIndexes), bearer-token                *)
(* authentication, payload validation, the insert into test_runs and the   *)
(* classification of its outcome by the service and the controller.        *)
(***************************************************************************)
EXTENDS Integers, Sequences, FiniteSets, TLC

(***************************************************************************)
(* Bounds of the model.                                                    *)
(***************************************************************************)
\* number of ingest requests the server receives in one behaviour
MaxReq == 2

\* number of token-issuance requests the server receives in one behaviour
MaxTok == 2

\* number of create-organization and create-project requests the server
\* receives in one behaviour
MaxOrg == 2

(***************************************************************************)
(* JavaScript values.  A string is a sequence of one-character strings.    *)
(***************************************************************************)
Undefined == [t |-> "undefined"]
Null == [t |-> "null"]
Str(s) == [t |-> "string", v |-> s]
Num(n) == [t |-> "number", v |-> n]
Obj(f) == [t |-> "object", v |-> f]
Arr(a) == [t |-> "array", v |-> a]

\* the number Infinity: JSON.parse returns it for a literal beyond the range
\* of a double (1e999); it is positive and not zero in every comparison
Infinity == [t |-> "number", v |-> 1, finite |-> FALSE]

\* Number.isFinite(x) for a number x
IsFinite(x) == "finite" \notin DOMAIN x

\* !x is false exactly for these
Truthy(x) ==
    CASE x.t = "undefined" -> FALSE
      [] x.t = "null" -> FALSE
      [] x.t = "string" -> Len(x.v) > 0
      [] x.t = "number" -> x.v # 0
      [] OTHER -> TRUE

\* typeof x
Typeof(x) ==
    CASE x.t = "null" -> "object"
      [] x.t = "array" -> "object"
      [] OTHER -> x.t

\* Array.isArray(x)
IsArray(x) == x.t = "array"

\* o.k for a value o on which property access does not throw
Get(o, k) == IF o.t = "object" /\ k \in DOMAIN o.v THEN o.v[k] ELSE Undefined

\* o.k throws a TypeError exactly when o is null or undefined
PropertyAccessThrows(o) == o.t \in {"undefined", "null"}

Whitespace == {" "}

\* String.prototype.trim
RECURSIVE TrimLeft(_)
TrimLeft(s) ==
    IF s # <<>> /\ Head(s) \in Whitespace THEN TrimLeft(Tail(s)) ELSE s

RECURSIVE TrimRight(_)
TrimRight(s) ==
    IF s # <<>> /\ s[Len(s)] \in Whitespace
    THEN TrimRight(SubSeq(s, 1, Len(s) - 1))
    ELSE s

Trim(s) == TrimRight(TrimLeft(s))

\* String.prototype.startsWith
StartsWith(s, p) == Len(s) >= Len(p) /\ SubSeq(s, 1, Len(p)) = p

\* String.prototype.substring(n), n counted from 0
Substring(s, n) == IF n >= Len(s) THEN <<>> ELSE SubSeq(s, n + 1, Len(s))

\* the run_id namespace prefix 'tr_'
TrPrefix == <<"t", "r", "_">>

\* x < 0 alone, without the typeof test
NotNonNegativeNumberUntyped(x) == Typeof(x) = "number" /\ x.v < 0

\* typeof x !== 'number' || x < 0
NotNonNegativeNumber(x) == Typeof(x) # "number" \/ x.v < 0

\* the timestamps new Date(s) parses to a valid date
ParseableTimestamps == { <<"2", "0", "2", "4">> }

\* isNaN(new Date(s).getTime())
DateIsNaN(s) == s \notin ParseableTimestamps

(***************************************************************************)
(* validateTestRun: the list of error messages, in the order pushed.       *)
(***************************************************************************)
RunIdErrors(data) ==
    LET x == Get(data, "run_id") IN
    IF ~Truthy(x) \/ Typeof(x) # "string"
    THEN << "run_id is required and must be a string" >>
    ELSE IF Len(Trim(x.v)) = 0
    THEN << "run_id cannot be empty" >>
    ELSE IF ~StartsWith(x.v, TrPrefix)
    THEN << "run_id must start with \"tr_\" prefix (e.g., tr_my_test_run_123)" >>
    ELSE IF Len(x.v) < 4
    THEN << "run_id must have at least one character after \"tr_\" prefix" >>
    ELSE << >>

EnvironmentErrors(data) ==
    LET x == Get(data, "environment") IN
    IF ~Truthy(x) \/ Typeof(x) # "string"
    THEN << "environment is required and must be a string" >>
    ELSE << >>

TimestampErrors(data) ==
    LET x == Get(data, "timestamp") IN
    IF ~Truthy(x) \/ Typeof(x) # "string"
    THEN << "timestamp is required and must be a string" >>
    ELSE IF DateIsNaN(x.v)
    THEN << "timestamp must be a valid ISO 8601 date string" >>
    ELSE << >>

SummaryFields ==
    << "total_test_cases", "passed", "failed", "flaky", "skipped", "duration_ms" >>

\* one check of the form: if (typeof o.f !== 'number' || o.f < 0) errors.push(...)
NumberFieldError(o, path, f) ==
    IF NotNonNegativeNumber(Get(o, f))
    THEN << path \o f \o " must be a non-negative number" >>
    ELSE << >>

RECURSIVE NumberFieldErrors(_, _, _, _)
NumberFieldErrors(o, path, fields, i) ==
    IF i > Len(fields) THEN << >>
    ELSE NumberFieldError(o, path, fields[i])
           \o NumberFieldErrors(o, path, fields, i + 1)

SummaryErrors(data) ==
    LET x == Get(data, "summary") IN
    IF ~Truthy(x) \/ Typeof(x) # "object"
    THEN << "summary is required and must be an object" >>
    ELSE NumberFieldErrors(x, "summary.", SummaryFields, 1)

\* ['passed', 'failed', 'flaky', 'skipped']
CaseStatuses ==
    { <<"p", "a", "s", "s", "e", "d">>, <<"f", "a", "i", "l", "e", "d">>,
      <<"f", "l", "a", "k", "y">>, <<"s", "k", "i", "p", "p", "e", "d">> }

SuiteNumberFields == << "total_cases", "passed", "failed", "duration_ms" >>

\* the body of the inner forEach, for the test case at 0-based index j
TestCaseErrors(testCase, path, j) ==
    LET p == path \o "test_cases[" \o ToString(j) \o "]." IN
    (IF ~Truthy(Get(testCase, "name")) \/ Typeof(Get(testCase, "name")) # "string"
     THEN << p \o "name is required" >> ELSE << >>)
    \o (IF ~(Get(testCase, "status").t = "string"
             /\ Get(testCase, "status").v \in CaseStatuses)
        THEN << p \o "status must be one of: passed, failed, flaky, skipped" >>
        ELSE << >>)
    \o NumberFieldError(testCase, p, "duration_ms")

RECURSIVE TestCasesErrors(_, _, _)
TestCasesErrors(cases, path, j) ==
    IF j > Len(cases) THEN << >>
    ELSE TestCaseErrors(cases[j], path, j - 1) \o TestCasesErrors(cases, path, j + 1)

\* the body of the outer forEach, for the suite at 0-based index i
SuiteErrors(suite, i) ==
    LET p == "test_suites[" \o ToString(i) \o "]."
        tc == Get(suite, "test_cases")
    IN  (IF ~Truthy(Get(suite, "suite_name")) \/ Typeof(Get(suite, "suite_name")) # "string"
         THEN << p \o "suite_name is required and must be a string" >> ELSE << >>)
        \o NumberFieldErrors(suite, p, SuiteNumberFields, 1)
        \o (IF tc.t = "undefined" THEN << >>
            ELSE IF ~IsArray(tc) THEN << p \o "test_cases must be an array" >>
            ELSE TestCasesErrors(tc.v, p, 1))

RECURSIVE SuitesErrors(_, _)
SuitesErrors(suites, i) ==
    IF i > Len(suites) THEN << >>
    ELSE SuiteErrors(suites[i], i - 1) \o SuitesErrors(suites, i + 1)

TestSuitesErrors(data) ==
    LET x == Get(data, "test_suites") IN
    IF x.t = "undefined" THEN << >>
    ELSE IF ~IsArray(x) THEN << "test_suites must be an array" >>
    ELSE SuitesErrors(x.v, 1)

\* the traversal reads suite.suite_name and testCase.name without a guard:
\* a null element makes the property access throw a TypeError
SuiteThrows(suite) ==
    \/ PropertyAccessThrows(suite)
    \/ /\ IsArray(Get(suite, "test_cases"))
       /\ \E j \in DOMAIN Get(suite, "test_cases").v :
              PropertyAccessThrows(Get(suite, "test_cases").v[j])

ValidateThrows(data) ==
    /\ IsArray(Get(data, "test_suites"))
    /\ \E i \in DOMAIN Get(data, "test_suites").v :
           SuiteThrows(Get(data, "test_suites").v[i])

\* validateTestRun(data): threw, or the list of errors
validateTestRun(data) ==
    IF ValidateThrows(data)
    THEN [threw |-> TRUE, errors |-> << >>]
    ELSE [threw |-> FALSE,
          errors |-> RunIdErrors(data) \o EnvironmentErrors(data)
                       \o TimestampErrors(data) \o SummaryErrors(data)
                       \o TestSuitesErrors(data)]

(***************************************************************************)
(* Credentials: bcrypt.hash / bcrypt.compare.  The hash of a token is a    *)
(* salt and a digest of the token under that salt; compare recomputes the  *)
(* digest with the salt stored in the hash.                                *)
(***************************************************************************)
CharCode(c) ==
    CASE c = "a" -> 1 [] c = "b" -> 2 [] c = "c" -> 3 [] OTHER -> 4

RECURSIVE Digest(_, _)
Digest(token, h) ==
    IF token = << >> THEN h
    ELSE Digest(Tail(token), (h * 31 + CharCode(Head(token))) % 65521)

\* ApiToken.hashToken, with the salt bcrypt drew
hashToken(token, salt) == [salt |-> salt, digest |-> Digest(token, salt)]

\* a comparison that accepts every token
verifyTokenAny(token, hash) == TRUE

\* ApiToken.verifyToken
verifyToken(token, hash) == Digest(token, hash.salt) = hash.digest

\* raw tokens: two issued ones and one that differs from the first in one character
RawTokenA == <<"a", "a">>
RawTokenB == <<"b", "b">>
RawTokenX == <<"a", "c">>

ProjectP1 == <<"p", "1">>
ProjectP2 == <<"p", "2">>
Projects == {ProjectP1, ProjectP2}

\* the api_tokens collection as persisted: one credential per project
IssuedCredentials ==
    { [_id |-> "k1", project_id |-> ProjectP1, token_hash |-> hashToken(RawTokenA, 1)],
      [_id |-> "k2", project_id |-> ProjectP2, token_hash |-> hashToken(RawTokenB, 2)] }

\* a scan that takes the first stored credential without comparing
AuthenticateMatchesUnchecked(token, tokens) == tokens

\* ApiToken.authenticate over the documents findAll returned: the credentials
\* the scan can stop at (the first match in scan order)
AuthenticateMatches(token, tokens) ==
    { c \in tokens : verifyToken(token, c.token_hash) }

(***************************************************************************)
(* Request inputs.                                                         *)
(***************************************************************************)
BearerPrefix == <<"B", "e", "a", "r", "e", "r", " ">>

\* values of req.headers['authorization']
Headers ==
    { Undefined,
      Str(<<"B", "a", "s", "i", "c", " ", "a", "a">>),
      Str(BearerPrefix),
      Str(BearerPrefix \o RawTokenA),
      Str(BearerPrefix \o RawTokenB),
      Str(BearerPrefix \o RawTokenX) }

RunIdA == <<"t", "r", "_", "a">>
Year == <<"2", "0", "2", "4">>

Summary1 ==
    Obj([total_test_cases |-> Num(3), passed |-> Num(2), failed |-> Num(1),
         flaky |-> Num(0), skipped |-> Num(0), duration_ms |-> Num(900)])

Summary2 ==
    Obj([total_test_cases |-> Num(1), passed |-> Num(0), failed |-> Num(0),
         flaky |-> Num(1), skipped |-> Num(0), duration_ms |-> Num(5)])

Suite1 ==
    Obj([suite_name |-> Str(<<"s">>), total_cases |-> Num(1), passed |-> Num(0),
         failed |-> Num(0), duration_ms |-> Num(5),
         test_cases |-> Arr(<< Obj([name |-> Str(<<"c">>),
                                    status |-> Str(<<"f", "l", "a", "k", "y">>),
                                    duration_ms |-> Num(5)]) >>)])

\* a valid payload
BodyFirst ==
    Obj([run_id |-> Str(RunIdA), environment |-> Str(<<"s", "t", "g">>),
         timestamp |-> Str(Year), summary |-> Summary1])

\* a valid payload with the same run_id, every other field different, and a
\* project_id supplied by the client
BodyRetry ==
    Obj([run_id |-> Str(RunIdA), environment |-> Str(<<"p", "r", "d">>),
         timestamp |-> Str(Year), summary |-> Summary2,
         test_suites |-> Arr(<< Suite1 >>),
         project_id |-> Str(<<"p", "2">>)])

\* environment missing and summary.passed a string
BodyInvalid ==
    Obj([run_id |-> Str(RunIdA), timestamp |-> Str(Year),
         summary |-> Obj([total_test_cases |-> Num(3), passed |-> Str(<<"2">>),
                          failed |-> Num(1), flaky |-> Num(0), skipped |-> Num(0),
                          duration_ms |-> Num(900)])])

\* environment missing and a null element in test_suites
BodyNullSuite ==
    Obj([run_id |-> Str(RunIdA), timestamp |-> Str(Year), summary |-> Summary1,
         test_suites |-> Arr(<< Null >>)])

Bodies == { BodyFirst, BodyRetry, BodyInvalid, BodyNullSuite }

\* the requests clients send: every header with a valid payload, the issued
\* tokens with every payload, the unknown token with an invalid payload too
Inputs ==
    { [header |-> h, body |-> BodyFirst] : h \in Headers }
    \cup { [header |-> Str(BearerPrefix \o t), body |-> b] :
              t \in {RawTokenA, RawTokenB}, b \in Bodies }
    \cup { [header |-> Str(BearerPrefix \o RawTokenX), body |-> BodyInvalid] }

(***************************************************************************)
(* The run store: MongoDB's insertOne on test_runs, TestRun.create, the    *)
(* service and the controller.                                             *)
(***************************************************************************)
\* the createIndex calls of createIndexes, in order
TokenHashIndex == "api_tokens.token_hash"
UniqueRunIndex == "test_runs.project_id_run_id"
IndexSteps ==
    << [collection |-> "organizations", index |-> "organizations.name", unique |-> TRUE],
       [collection |-> "projects", index |-> "projects.org_id_name", unique |-> TRUE],
       [collection |-> "api_tokens", index |-> TokenHashIndex, unique |-> TRUE],
       [collection |-> "api_tokens", index |-> "api_tokens.project_id", unique |-> FALSE],
       [collection |-> "test_runs", index |-> UniqueRunIndex, unique |-> TRUE],
       [collection |-> "test_runs", index |-> "test_runs.timestamp", unique |-> FALSE],
       [collection |-> "test_runs", index |-> "test_runs.project_id", unique |-> FALSE] >>

\* the collections that are part of the state
Collections == {"api_tokens", "test_runs"}

\* the collections the creation of organizations and projects writes
OrgCollections == {"organizations", "projects"}
OrgNameIndex == "organizations.name"
ProjectNameIndex == "projects.org_id_name"

\* error.code of a duplicate-key error
DuplicateKeyCode == 11000

NoFault == [code |-> 0, message |-> << >>]

\* what insertOne throws on a violated unique index
MongoDuplicateKeyError ==
    [code |-> DuplicateKeyCode,
     message |-> << "E11000", "duplicate", "key", "error", "collection" >>]

\* errors insertOne can throw for other reasons; the text is the server's
StorageFaults ==
    { [code |-> 89, message |-> << "connection", "timed", "out" >>],
      [code |-> 11001, message |-> << "E11001", "duplicate", "key", "on", "update" >>] }

\* message.includes(word), on a message split into words
Includes(message, word) == \E i \in DOMAIN message : message[i] = word

\* x || d
OrElse(x, d) == IF Truthy(x) THEN x ELSE d

\* as insertOne, with the unique index on project_id alone
insertOneProjectKey(coll, idx, doc, fault) ==
    IF fault # NoFault
    THEN [ok |-> FALSE, error |-> fault]
    ELSE IF UniqueRunIndex \in idx /\ \E d \in coll : d.project_id = doc.project_id
    THEN [ok |-> FALSE, error |-> MongoDuplicateKeyError]
    ELSE [ok |-> TRUE, error |-> NoFault]

\* as insertOne, with the unique index on run_id alone
insertOneRunIdKey(coll, idx, doc, fault) ==
    IF fault # NoFault
    THEN [ok |-> FALSE, error |-> fault]
    ELSE IF UniqueRunIndex \in idx /\ \E d \in coll : d.run_id = doc.run_id
    THEN [ok |-> FALSE, error |-> MongoDuplicateKeyError]
    ELSE [ok |-> TRUE, error |-> NoFault]

\* collection.insertOne(doc): atomic in the storage engine; the unique index,
\* when it exists, rejects a second document with the same (project_id, run_id)
insertOne(coll, idx, doc, fault) ==
    IF fault # NoFault
    THEN [ok |-> FALSE, error |-> fault]
    ELSE IF /\ UniqueRunIndex \in idx
            /\ \E d \in coll : d.project_id = doc.project_id /\ d.run_id = doc.run_id
    THEN [ok |-> FALSE, error |-> MongoDuplicateKeyError]
    ELSE [ok |-> TRUE, error |-> NoFault]

\* a store that keeps only the document written last
StoredOnly(coll, doc) == {doc}

\* the collection after insertOne stored the document
Stored(coll, doc) == coll \cup {doc}

\* the document TestRun.create builds
TestRunDocument(data, id) ==
    [_id |-> id,
     project_id |-> data.projectId,
     run_id |-> data.runId,
     environment |-> OrElse(data.environment, Str(<<"u", "n", "k", "n", "o", "w", "n">>)),
     timestamp |-> data.timestamp,
     summary |-> Obj([f \in {SummaryFields[i] : i \in DOMAIN SummaryFields} |->
                         OrElse(Get(data.summary, f), Num(0))]),
     test_suites |-> OrElse(data.testSuites, Arr(<< >>))]

\* as TestRunCreateError, with the wording of Organization.create
TestRunCreateErrorAlreadyExists(error) ==
    IF error.code = DuplicateKeyCode
    THEN [code |-> 0,
          message |-> << "Test", "run", "with", "this", "run_id", "already", "exists" >>]
    ELSE error

\* the error TestRun.create throws for an insertOne error
TestRunCreateError(error) ==
    IF error.code = DuplicateKeyCode
    THEN [code |-> 0,
          message |-> << "Test", "run", "with", "this", "run_id", "already",
                         "exists", "(", "duplicate", ")" >>]
    ELSE error

\* TestRun.create
TestRunCreate(coll, idx, data, id, fault) ==
    LET r == insertOne(coll, idx, TestRunDocument(data, id), fault) IN
    IF r.ok
    THEN [threw |-> FALSE, error |-> NoFault]
    ELSE [threw |-> TRUE, error |-> TestRunCreateError(r.error)]

\* the catch of the service: is the error the idempotent duplicate?
ServiceIsDuplicate(error) == Includes(error.message, "duplicate")

\* testRunService.ingestTestRun, given what TestRun.create did
ServiceIngestTestRun(created, data) ==
    IF ~created.threw
    THEN [threw |-> FALSE, duplicate |-> FALSE, runId |-> data.runId,
          environment |-> data.environment, summary |-> data.summary]
    ELSE IF ServiceIsDuplicate(created.error)
    THEN [threw |-> FALSE, duplicate |-> TRUE, runId |-> data.runId,
          environment |-> data.environment, summary |-> Undefined]
    ELSE [threw |-> TRUE, duplicate |-> FALSE, runId |-> data.runId,
          environment |-> data.environment, summary |-> Undefined]

\* a service that calls TestRun.create again when it failed with a storage fault
ServiceAfterCreateRetry(created) ==
    IF created.threw /\ ~ServiceIsDuplicate(created.error) THEN "validated" ELSE "inserted"

\* where the request stands once TestRun.create settled: the service returns
\* or rethrows and the controller answers; neither calls create again
ServiceAfterCreate(created) == "inserted"

\* a controller that lets the body name the project
ControllerProjectIdFromBody(auth, body) ==
    IF Get(body, "project_id").t = "string"
    THEN Get(body, "project_id").v
    ELSE auth.projectId

\* the project the controller writes to: req.auth.projectId
ControllerProjectId(auth, body) == auth.projectId

\* the argument the controller passes to the service
ControllerData(auth, body) ==
    [projectId |-> ControllerProjectId(auth, body),
     runId |-> Get(body, "run_id"),
     environment |-> Get(body, "environment"),
     timestamp |-> Get(body, "timestamp"),
     summary |-> Get(body, "summary"),
     testSuites |-> Get(body, "test_suites")]

\* a controller that sends nothing
ControllerResponseNone(body, result) == [status |-> 0]

\* the response the controller sends for a service result
ControllerResponse(body, result) ==
    IF result.threw
    THEN [status |-> 500,
          body |-> [error |-> "Internal Server Error",
                    message |-> "Failed to ingest test run"]]
    ELSE IF result.duplicate
    THEN [status |-> 200,
          body |-> [message |-> "Test run already exists (idempotent)",
                    run_id |-> Get(body, "run_id"),
                    duplicate |-> TRUE]]
    ELSE [status |-> 201,
          body |-> [message |-> "Test run ingested successfully",
                    run_id |-> Get(body, "run_id"),
                    environment |-> Get(body, "environment"),
                    summary |-> result.summary,
                    test_suites |-> OrElse(Get(body, "test_suites"), Arr(<< >>))]]

\* JSON.stringify of a value, as the value the client parses back: a number
\* that is not finite becomes null, a property whose value is undefined is
\* left out, an undefined element of an array becomes null
RECURSIVE JsonStringify(_)
JsonStringify(x) ==
    CASE x.t = "number" -> IF IsFinite(x) THEN x ELSE Null
      [] x.t = "object" ->
            Obj([k \in { f \in DOMAIN x.v : x.v[f].t # "undefined" } |->
                    JsonStringify(x.v[k])])
      [] x.t = "array" -> Arr([i \in DOMAIN x.v |-> JsonStringify(x.v[i])])
      [] x.t = "undefined" -> Null
      [] OTHER -> x

\* the properties of a response body that hold a string or a boolean literal
\* or the list of validation messages
LiteralProperties == {"message", "error", "duplicate", "details"}

\* res.json(data): the body the client receives
ResJson(data) ==
    [k \in { f \in DOMAIN data :
                IF f \in LiteralProperties THEN TRUE ELSE data[f].t # "undefined" } |->
        IF k \in LiteralProperties THEN data[k] ELSE JsonStringify(data[k])]

\* an increment that counts the event twice
incrementTwice(m, counter) ==
    IF counter \in DOMAIN m THEN [m EXCEPT ![counter] = @ + 2] ELSE m

\* metricsController.increment
increment(m, counter) ==
    IF counter \in DOMAIN m THEN [m EXCEPT ![counter] = @ + 1] ELSE m

(***************************************************************************)
(* State.                                                                  *)
(***************************************************************************)
VARIABLES
    phase,       \* "starting", "connected", "listening" or "exited"
    indexes,     \* the unique indexes that exist on the collections of the state
    api_tokens,  \* the api_tokens collection
    test_runs,   \* the test_runs collection
    req,         \* the ingest requests, by arrival number
    metrics,     \* the in-memory counters
    projects,    \* the projects collection
    tok,         \* the token-issuance requests, by arrival number
    resolution,  \* the last call of ApiToken.authenticate: the token, the
                 \* documents findAll returned and the result
    organizations, \* the organizations collection
    org          \* the create-organization and create-project requests, by
                 \* arrival number

vars ==
    << phase, indexes, api_tokens, test_runs, req, metrics, projects, tok,
       resolution, organizations, org >>

\* the state of the organization and project creation
orgVars == << organizations, org >>

\* the counters of the metrics object that the handlers of the model write
ZeroMetrics ==
    [orgs_created |-> 0, projects_created |-> 0, test_runs_ingested |-> 0,
     duplicate_runs_rejected |-> 0]

\* the state of the credential operations
credVars == << projects, tok, resolution >>

\* the state of the ingest pipeline
ingestVars == << test_runs, req, metrics >>

Requests == 1..MaxReq

NoAuth == [t |-> "undefined"]
NoResult == [t |-> "undefined"]
NoResponse == [status |-> 0]

\* a request that has not arrived
IdleRequest ==
    [pc |-> "idle", header |-> Undefined, body |-> Undefined, auth |-> NoAuth,
     errors |-> << >>, result |-> NoResult, response |-> NoResponse,
     lookup |-> "none", inserts |-> 0, dbOutcome |-> "none", keyBefore |-> FALSE,
     priorCreated |-> FALSE]

TokenRequests == 1..MaxTok

\* a token-issuance request that has not arrived
IdleTokenRequest ==
    [pc |-> "idle", body |-> Undefined, lookup |-> "none", rawToken |-> << >>,
     response |-> NoResponse]

NoResolution == [token |-> << >>, tokens |-> {}, result |-> Undefined]

\* the organizations collection as persisted: one organization created earlier
OrgOld == <<"o", "0">>
ExistingOrganizations == { [_id |-> OrgOld, name |-> <<"o", "l", "d">>] }

OrgRequests == 1..MaxOrg

\* a create-organization or create-project request that has not arrived
IdleOrgRequest ==
    [pc |-> "idle", kind |-> "none", body |-> Undefined, dbOutcome |-> "none",
     error |-> NoFault, response |-> NoResponse]

\* the database holds the projects and the credentials issued earlier
Init ==
    /\ phase = "starting"
    /\ indexes = {}
    /\ api_tokens = IssuedCredentials
    /\ test_runs = {}
    /\ req = [r \in Requests |-> IdleRequest]
    /\ metrics = ZeroMetrics
    /\ projects = { [_id |-> p] : p \in Projects }
    /\ tok = [i \in TokenRequests |-> IdleTokenRequest]
    /\ resolution = NoResolution
    /\ organizations = ExistingOrganizations
    /\ org = [i \in OrgRequests |-> IdleOrgRequest]

(***************************************************************************)
(* Start-up.                                                               *)
(***************************************************************************)
\* createIndexes: the calls run in order inside one try; the first one that
\* throws skips the rest and the catch swallows the error
createIndexes(idx, failAt) ==
    idx \cup { IndexSteps[i].index :
                 i \in { j \in DOMAIN IndexSteps :
                            /\ j < failAt
                            /\ IndexSteps[j].unique
                            /\ IndexSteps[j].collection \in Collections } }

\* createIndexes, seen on the organizations and projects collections
createIndexesOrg(idx, failAt) ==
    idx \cup { IndexSteps[i].index :
                 i \in { j \in DOMAIN IndexSteps :
                            /\ j < failAt
                            /\ IndexSteps[j].unique
                            /\ IndexSteps[j].collection \in OrgCollections } }

\* createIndex succeeds: a unique index that does not exist yet cannot be
\* built over documents that share its key
CanBuild(step, idx, runs) ==
    (step.index = UniqueRunIndex /\ UniqueRunIndex \notin idx) =>
        \A d1, d2 \in runs :
            (d1.project_id = d2.project_id /\ d1.run_id = d2.run_id) => d1 = d2

\* connectDatabase: client.connect() throws and the process exits, or the
\* handle is set and createIndexes runs; failAt is the first createIndex call
\* that throws (none when failAt is past the last call)
ConnectDatabase ==
    /\ phase = "starting"
    /\ \/ /\ phase' = "exited"
          /\ UNCHANGED indexes
       \/ \E failAt \in 1..(Len(IndexSteps) + 1) :
              /\ \A j \in 1..(failAt - 1) : CanBuild(IndexSteps[j], indexes, test_runs)
              /\ indexes' = createIndexes(indexes, failAt)
              /\ phase' = "connected"
    /\ UNCHANGED << api_tokens, test_runs, req, metrics, credVars, orgVars >>

\* the module variable db of db.js: null until connectDatabase has assigned the
\* handle, and null again in the process a restart starts
DbIsSet == phase \in {"connected", "listening"}

\* getDb throws when the handle is not set
getDbThrows == ~DbIsSet

\* a start-up that does not await connectDatabase before app.listen
ListenWithoutAwait ==
    /\ phase \in {"starting", "connected"}
    /\ phase' = "listening"
    /\ UNCHANGED << indexes, api_tokens, test_runs, req, metrics, credVars, orgVars >>

\* startServer: app.listen after connectDatabase returned
Listen ==
    /\ phase = "connected"
    /\ phase' = "listening"
    /\ UNCHANGED << indexes, api_tokens, test_runs, req, metrics, credVars, orgVars >>

(***************************************************************************)
(* The ingest pipeline of one request.                                     *)
(***************************************************************************)
Unauthorized(message) ==
    [status |-> 401, body |-> [error |-> "Unauthorized", message |-> message]]

\* the header checks of authenticateToken that precede the lookup: the 401
\* they end with, or NoResponse when the token goes to ApiToken.authenticate
HeaderRejection(authHeader) ==
    IF ~Truthy(authHeader) \/ ~StartsWith(authHeader.v, BearerPrefix)
    THEN Unauthorized("Missing or invalid Authorization header. Expected: Bearer <token>")
    ELSE IF Substring(authHeader.v, 7) = << >>
    THEN Unauthorized("Token is empty")
    ELSE NoResponse

\* a catch that answers as for an unknown token
LookupFailedUnauthorized == Unauthorized("Invalid token")

\* the catch of authenticateToken: ApiToken.authenticate threw
LookupFailed ==
    [status |-> 500,
     body |-> [error |-> "Internal Server Error", message |-> "Authentication failed"]]

Finish(r, response) ==
    req' = [req EXCEPT ![r].pc = "done", ![r].response = response]

\* history: a request for this project and run_id has already been answered 201
PriorCreated(projectId, runId) ==
    \E q \in Requests :
        /\ req[q].pc = "done" /\ req[q].response.status = 201
        /\ req[q].auth.projectId = projectId
        /\ Get(req[q].body, "run_id") = runId

\* authenticateToken for a request that arrives with this header and body
Authenticate(r, header, body) ==
    /\ phase = "listening"
    /\ req[r].pc = "idle"
    /\ IF r = 1 THEN TRUE ELSE req[r - 1].pc # "idle"
    /\ LET arrived == [req[r] EXCEPT !.header = header, !.body = body]
           early == HeaderRejection(header)
           token == Substring(header.v, 7)
       IN  IF early # NoResponse
           THEN req' = [req EXCEPT ![r] = [arrived EXCEPT !.pc = "done",
                                                          !.response = early]]
           ELSE \/ \* findAll or bcrypt.compare throws
                   req' = [req EXCEPT ![r] =
                            [arrived EXCEPT !.pc = "done", !.lookup = "threw",
                                            !.response = LookupFailed]]
                \/ /\ AuthenticateMatches(token, api_tokens) = {}
                   /\ req' = [req EXCEPT ![r] =
                               [arrived EXCEPT !.pc = "done", !.lookup = "returned",
                                               !.response = Unauthorized("Invalid token")]]
                \/ \E c \in AuthenticateMatches(token, api_tokens) :
                       req' = [req EXCEPT ![r] =
                                [arrived EXCEPT !.pc = "authenticated",
                                  !.lookup = "returned",
                                  !.priorCreated =
                                     PriorCreated(c.project_id, Get(body, "run_id")),
                                  !.auth =
                                   [t |-> "auth", tokenId |-> c._id,
                                    projectId |-> c.project_id]]]
    /\ UNCHANGED << phase, indexes, api_tokens, test_runs, metrics, credVars, orgVars >>

\* a check that lets every payload through
HasErrorsNever(errors) == FALSE

\* errors.length > 0
HasErrors(errors) == Len(errors) > 0

\* validateTestRunInput; a TypeError thrown by the traversal goes to the
\* application's error handler
Validate(r) ==
    /\ req[r].pc = "authenticated"
    /\ LET v == validateTestRun(req[r].body) IN
       IF v.threw
       THEN Finish(r, [status |-> 500,
                       body |-> [error |-> "Internal Server Error",
                                 message |-> "An unexpected error occurred"]])
       ELSE IF HasErrors(v.errors)
       THEN req' = [req EXCEPT ![r].pc = "done", ![r].errors = v.errors,
                               ![r].response =
                                  [status |-> 400,
                                   body |-> [error |-> "Validation Error",
                                             details |-> v.errors]]]
       ELSE req' = [req EXCEPT ![r].pc = "validated"]
    /\ UNCHANGED << phase, indexes, api_tokens, test_runs, metrics, credVars, orgVars >>

\* the controller calls the service, the service calls TestRun.create, and the
\* storage engine executes insertOne
Insert(r, fault) ==
    /\ req[r].pc = "validated"
    /\ LET data == ControllerData(req[r].auth, req[r].body)
           doc == TestRunDocument(data, r)
           db == insertOne(test_runs, indexes, doc, fault)
           created == TestRunCreate(test_runs, indexes, data, r, fault)
       IN  /\ test_runs' = IF db.ok THEN Stored(test_runs, doc) ELSE test_runs
           /\ req' = [req EXCEPT
                  ![r].pc = ServiceAfterCreate(created),
                  ![r].result = ServiceIngestTestRun(created, data),
                  ![r].inserts = @ + 1,
                  ![r].dbOutcome = IF db.ok THEN "inserted"
                                   ELSE IF fault # NoFault THEN "fault"
                                   ELSE "E11000",
                  ![r].keyBefore = \E d \in test_runs :
                                      /\ d.project_id = doc.project_id
                                      /\ d.run_id = doc.run_id]
    /\ UNCHANGED << phase, indexes, api_tokens, metrics, credVars, orgVars >>

\* the controller after the service returned or threw
Respond(r) ==
    /\ req[r].pc = "inserted"
    /\ Finish(r, ControllerResponse(req[r].body, req[r].result))
    /\ metrics' = IF req[r].result.threw THEN metrics
                  ELSE IF req[r].result.duplicate
                  THEN increment(metrics, "duplicate_runs_rejected")
                  ELSE increment(metrics, "test_runs_ingested")
    /\ UNCHANGED << phase, indexes, api_tokens, test_runs, credVars, orgVars >>

Next ==
    \/ ConnectDatabase
    \/ Listen
    \/ \E r \in Requests, in \in Inputs : Authenticate(r, in.header, in.body)
    \/ \E r \in Requests : Validate(r)
    \/ \E r \in Requests, fault \in {NoFault} \cup StorageFaults : Insert(r, fault)
    \/ \E r \in Requests : Respond(r)

Spec == Init /\ [][Next]_vars


TypeOK ==
    /\ phase \in {"starting", "connected", "listening", "exited"}
    /\ indexes \subseteq {IndexSteps[i].index : i \in DOMAIN IndexSteps}
    /\ \A r \in Requests :
           req[r].pc \in {"idle", "authenticated", "validated", "inserted", "done",
                           "aborted"}

(***************************************************************************)
(* Credential operations: project creation, token issuance (validateToken, *)
(* the token service and ApiToken.create) and ApiToken.authenticate.       *)
(***************************************************************************)
\* values crypto.randomBytes(32).toString('hex') can return
RawTokenC == <<"c", "c">>
TokenPool == {RawTokenA, RawTokenB, RawTokenC}

\* salts bcrypt.hash can draw
Salts == {1, 2}

\* bodies of POST /tokens: a project id, or no project_id at all
TokenBodies ==
    { Obj([project_id |-> Str(p)]) : p \in Projects }
    \cup { Obj([name |-> Str(<<"n">>)]) }

\* validateToken
validateToken(data) ==
    LET x == Get(data, "project_id") IN
    IF ~Truthy(x) \/ Typeof(x) # "string"
    THEN << "project_id is required and must be a string" >>
    ELSE << >>

\* a lookup that returns some stored project, whatever the id
ProjectFindAny(coll, id) ==
    IF coll = {} THEN Null ELSE Obj(CHOOSE d \in coll : TRUE)

\* Project.findById: findOne({ _id: id })
ProjectFindById(coll, id) ==
    IF \E d \in coll : d._id = id
    THEN Obj(CHOOSE d \in coll : d._id = id)
    ELSE Null

\* a service that never takes the not-found branch
ServiceProjectMissingNever(project) == FALSE

\* the token service: if (!project)
ServiceProjectMissing(project) == ~Truthy(project)

\* a document that keeps the raw token next to its hash
ApiTokenDocumentWithToken(tokenId, projectId, rawToken, tokenHash) ==
    [_id |-> tokenId, project_id |-> projectId, token_hash |-> tokenHash,
     token |-> rawToken]

\* ApiToken.create: the document inserted into api_tokens
ApiTokenDocument(tokenId, projectId, rawToken, tokenHash) ==
    [_id |-> tokenId, project_id |-> projectId, token_hash |-> tokenHash]

\* the token controller's 201 body
TokenCreatedBody(result) ==
    [id |-> result.id, project_id |-> result.project_id, token |-> result.token,
     message |-> "API token created successfully"]

\* the token generateToken returned has not been generated before
Fresh(rawToken) == \A j \in TokenRequests : tok[j].rawToken # rawToken

\* Project.create: insertOne of a project under a new id
ProjectCreate(id) ==
    /\ phase = "listening"
    /\ \A d \in projects : d._id # id
    /\ projects' = projects \cup { [_id |-> id] }
    /\ UNCHANGED << phase, indexes, api_tokens, ingestVars, tok, resolution, orgVars >>

\* POST /tokens up to the answer of Project.findById: validateTokenInput, the
\* controller and the first await of the token service
TokenLookup(i, body) ==
    /\ phase = "listening"
    /\ tok[i].pc = "idle"
    /\ IF i = 1 THEN TRUE ELSE tok[i - 1].pc # "idle"
    /\ LET arrived == [tok[i] EXCEPT !.body = body]
           errors == validateToken(body)
           project == ProjectFindById(projects, Get(body, "project_id").v)
       IN  IF HasErrors(errors)
           THEN tok' = [tok EXCEPT ![i] =
                         [arrived EXCEPT !.pc = "done",
                            !.response =
                               [status |-> 400,
                                body |-> [error |-> "Validation Error",
                                          details |-> errors]]]]
           ELSE \/ \* findOne throws
                   tok' = [tok EXCEPT ![i] =
                            [arrived EXCEPT !.pc = "done", !.lookup = "threw",
                               !.response =
                                  [status |-> 500,
                                   body |-> [error |-> "Internal Server Error",
                                             message |-> "Failed to create token"]]]]
                \/ IF ServiceProjectMissing(project)
                   THEN tok' = [tok EXCEPT ![i] =
                                 [arrived EXCEPT !.pc = "done", !.lookup = "missing",
                                    !.response =
                                       [status |-> 404,
                                        body |-> [error |-> "Not Found",
                                                  message |-> "Project not found"]]]]
                   ELSE tok' = [tok EXCEPT ![i] =
                                 [arrived EXCEPT !.pc = "found", !.lookup = "found"]]
    /\ UNCHANGED << phase, indexes, api_tokens, ingestVars, projects, resolution, orgVars >>

\* POST /tokens after the project was found: ApiToken.create and the response;
\* fault: insertOne throws
TokenCreate(i, rawToken, salt, fault) ==
    /\ tok[i].pc = "found"
    /\ Fresh(rawToken)
    /\ LET tokenId == "k" \o ToString(i)
           projectId == Get(tok[i].body, "project_id").v
           tokenHash == hashToken(rawToken, salt)
           apiToken == ApiTokenDocument(tokenId, projectId, rawToken, tokenHash)
           result == [id |-> tokenId, project_id |-> projectId, token |-> rawToken,
                      token_hash |-> tokenHash]
       IN  IF fault
           THEN /\ tok' = [tok EXCEPT ![i].pc = "done", ![i].rawToken = rawToken,
                             ![i].response =
                                [status |-> 500,
                                 body |-> [error |-> "Internal Server Error",
                                           message |-> "Failed to create token"]]]
                /\ UNCHANGED api_tokens
           ELSE /\ api_tokens' = Stored(api_tokens, apiToken)
                /\ tok' = [tok EXCEPT ![i].pc = "done", ![i].rawToken = rawToken,
                             ![i].response =
                                [status |-> 201, body |-> TokenCreatedBody(result)]]
    /\ UNCHANGED << phase, indexes, ingestVars, projects, resolution, orgVars >>

\* what ApiToken.authenticate can return: the first stored credential the
\* scan finds to verify, or null
ApiTokenAuthenticate(token, tokens) ==
    IF AuthenticateMatches(token, tokens) = {}
    THEN {Null}
    ELSE { [t |-> "auth", tokenId |-> c._id, projectId |-> c.project_id] :
             c \in AuthenticateMatches(token, tokens) }

\* a call of ApiToken.authenticate with a presented token
Resolve(token) ==
    /\ phase = "listening"
    /\ \E result \in ApiTokenAuthenticate(token, api_tokens) :
           resolution' = [token |-> token, tokens |-> api_tokens, result |-> result]
    /\ UNCHANGED << phase, indexes, api_tokens, ingestVars, projects, tok, orgVars >>

\* the server is up on an empty database with every index created
InitCredentials ==
    /\ phase = "listening"
    /\ indexes = createIndexes({}, Len(IndexSteps) + 1)
    /\ api_tokens = {}
    /\ test_runs = {}
    /\ req = [r \in Requests |-> IdleRequest]
    /\ metrics = ZeroMetrics
    /\ projects = {}
    /\ tok = [i \in TokenRequests |-> IdleTokenRequest]
    /\ resolution = NoResolution
    /\ organizations = ExistingOrganizations
    /\ org = [i \in OrgRequests |-> IdleOrgRequest]

NextCredentials ==
    \/ \E id \in Projects : ProjectCreate(id)
    \/ \E i \in TokenRequests, body \in TokenBodies : TokenLookup(i, body)
    \/ \E i \in TokenRequests, rawToken \in TokenPool, salt \in Salts,
          fault \in BOOLEAN : TokenCreate(i, rawToken, salt, fault)
    \/ \E token \in TokenPool \cup {RawTokenX} : Resolve(token)

CredentialSpec == InitCredentials /\ [][NextCredentials]_vars

(***************************************************************************)
(* Creation of organizations and projects: validateOrganizationInput /     *)
(* validateProjectInput, the services, Organization.create and             *)
(* Project.create with their unique indexes, and the controllers.          *)
(***************************************************************************)
\* message.includes(phrase), on a message split into words
RECURSIVE IncludesPhrase(_, _)
IncludesPhrase(message, phrase) ==
    IF Len(message) < Len(phrase) THEN FALSE
    ELSE IF SubSeq(message, 1, Len(phrase)) = phrase THEN TRUE
    ELSE IncludesPhrase(Tail(message), phrase)

\* the name checks shared by validateOrganization and validateProject
NameErrors(data) ==
    LET x == Get(data, "name") IN
    IF ~Truthy(x) \/ Typeof(x) # "string"
    THEN << "name is required and must be a string" >>
    ELSE IF Len(Trim(x.v)) = 0
    THEN << "name cannot be empty" >>
    ELSE IF Len(x.v) > 255
    THEN << "name must be less than 255 characters" >>
    ELSE << >>

validateOrganization(data) == NameErrors(data)

validateProject(data) ==
    NameErrors(data)
    \o (IF ~Truthy(Get(data, "org_id")) \/ Typeof(Get(data, "org_id")) # "string"
        THEN << "org_id is required and must be a string" >> ELSE << >>)

\* the _id Organization.create and Project.create draw for request i
OrgId(i) == << "o", ToString(i) >>
ProjId(i) == << "p", "r", "o", "j", ToString(i) >>

\* insertOne on organizations: the unique index on name, when it exists,
\* rejects a second document with the name
OrgInsertOne(coll, idx, doc, fault) ==
    IF fault # NoFault
    THEN [ok |-> FALSE, error |-> fault]
    ELSE IF OrgNameIndex \in idx /\ \E d \in coll : d.name = doc.name
    THEN [ok |-> FALSE, error |-> MongoDuplicateKeyError]
    ELSE [ok |-> TRUE, error |-> NoFault]

\* insertOne on projects: the unique index on (org_id, name)
ProjectInsertOne(coll, idx, doc, fault) ==
    IF fault # NoFault
    THEN [ok |-> FALSE, error |-> fault]
    ELSE IF /\ ProjectNameIndex \in idx
            /\ \E d \in coll : d.org_id = doc.org_id /\ d.name = doc.name
    THEN [ok |-> FALSE, error |-> MongoDuplicateKeyError]
    ELSE [ok |-> TRUE, error |-> NoFault]

\* the error Organization.create throws for an insertOne error
OrganizationCreateError(error) ==
    IF error.code = DuplicateKeyCode
    THEN [code |-> 0,
          message |-> << "Organization", "with", "this", "name", "already", "exists" >>]
    ELSE error

\* the error Project.create throws for an insertOne error
ProjectCreateError(error) ==
    IF error.code = DuplicateKeyCode
    THEN [code |-> 0,
          message |-> << "Project", "with", "this", "name", "already", "exists",
                         "in", "the", "organization" >>]
    ELSE error

\* the catch of both controllers: error.message.includes('already exists')
IsConflict(error) == IncludesPhrase(error.message, << "already", "exists" >>)

\* Organization.findById: findOne({ _id: id })
OrganizationFindById(coll, id) ==
    IF \E d \in coll : d._id = id
    THEN Obj(CHOOSE d \in coll : d._id = id)
    ELSE Null

\* the response of createOrganization / createProject once the model's create
\* settled: 201 with the document, 409 for a conflict, 500 otherwise
CreatedResponse(kind, doc, error) ==
    IF error = NoFault
    THEN [status |-> 201,
          body |-> IF kind = "organization"
                   THEN [id |-> doc._id, name |-> doc.name,
                         message |-> "Organization created successfully"]
                   ELSE [id |-> doc._id, org_id |-> doc.org_id, name |-> doc.name,
                         message |-> "Project created successfully"]]
    ELSE IF IsConflict(error)
    THEN [status |-> 409, body |-> [error |-> "Conflict", message |-> error.message]]
    ELSE [status |-> 500,
          body |-> [error |-> "Internal Server Error",
                    message |-> IF kind = "organization"
                                THEN "Failed to create organization"
                                ELSE "Failed to create project"]]

OrgFinish(i, arrived, response) ==
    org' = [org EXCEPT ![i] = [arrived EXCEPT !.pc = "done", !.response = response]]

ValidationError(errors) ==
    [status |-> 400, body |-> [error |-> "Validation Error", details |-> errors]]

\* POST /orgs up to the answer of insertOne: validateOrganizationInput, the
\* controller, the service and Organization.create
CreateOrganization(i, body, fault) ==
    /\ phase = "listening"
    /\ org[i].pc = "idle"
    /\ IF i = 1 THEN TRUE ELSE org[i - 1].pc # "idle"
    /\ LET arrived == [org[i] EXCEPT !.kind = "organization", !.body = body]
           errors == validateOrganization(body)
           doc == [_id |-> OrgId(i), name |-> Get(body, "name").v]
           db == OrgInsertOne(organizations, indexes, doc, fault)
       IN  IF HasErrors(errors)
           THEN /\ OrgFinish(i, arrived, ValidationError(errors))
                /\ UNCHANGED organizations
           ELSE /\ organizations' = IF db.ok THEN Stored(organizations, doc)
                                     ELSE organizations
                /\ org' = [org EXCEPT ![i] =
                            [arrived EXCEPT
                               !.pc = "inserted",
                               !.dbOutcome = IF db.ok THEN "inserted"
                                             ELSE IF fault # NoFault THEN "fault"
                                             ELSE "E11000",
                               !.error = OrganizationCreateError(db.error)]]
    /\ UNCHANGED << phase, indexes, api_tokens, ingestVars, credVars >>

\* POST /projects up to the answer of Organization.findById:
\* validateProjectInput, the controller and the first await of the service
ProjectLookup(i, body) ==
    /\ phase = "listening"
    /\ org[i].pc = "idle"
    /\ IF i = 1 THEN TRUE ELSE org[i - 1].pc # "idle"
    /\ LET arrived == [org[i] EXCEPT !.kind = "project", !.body = body]
           errors == validateProject(body)
           found == OrganizationFindById(organizations, Get(body, "org_id").v)
       IN  IF HasErrors(errors)
           THEN OrgFinish(i, arrived, ValidationError(errors))
           ELSE IF ~Truthy(found)
           THEN OrgFinish(i, arrived,
                          [status |-> 404,
                           body |-> [error |-> "Not Found",
                                     message |-> "Organization not found"]])
           ELSE org' = [org EXCEPT ![i] = [arrived EXCEPT !.pc = "found"]]
    /\ UNCHANGED << phase, indexes, api_tokens, ingestVars, credVars, organizations >>

\* POST /projects after the organization was found: Project.create
ProjectInsert(i, fault) ==
    /\ org[i].pc = "found"
    /\ LET doc == [_id |-> ProjId(i), org_id |-> Get(org[i].body, "org_id").v,
                   name |-> Get(org[i].body, "name").v]
           db == ProjectInsertOne(projects, indexes, doc, fault)
       IN  /\ projects' = IF db.ok THEN Stored(projects, doc) ELSE projects
           /\ org' = [org EXCEPT
                  ![i].pc = "inserted",
                  ![i].dbOutcome = IF db.ok THEN "inserted"
                                   ELSE IF fault # NoFault THEN "fault"
                                   ELSE "E11000",
                  ![i].error = ProjectCreateError(db.error)]
    /\ UNCHANGED << phase, indexes, api_tokens, ingestVars, tok, resolution,
                    organizations >>

\* the controller after the service returned or threw
OrgRespond(i) ==
    /\ org[i].pc = "inserted"
    /\ LET doc == IF org[i].kind = "organization"
                  THEN [_id |-> OrgId(i), name |-> Get(org[i].body, "name").v]
                  ELSE [_id |-> ProjId(i), org_id |-> Get(org[i].body, "org_id").v,
                        name |-> Get(org[i].body, "name").v]
       IN  org' = [org EXCEPT
                     ![i].pc = "done",
                     ![i].response = CreatedResponse(org[i].kind, doc, org[i].error)]
    /\ metrics' = IF org[i].error # NoFault THEN metrics
                  ELSE IF org[i].kind = "organization"
                  THEN increment(metrics, "orgs_created")
                  ELSE increment(metrics, "projects_created")
    /\ UNCHANGED << phase, indexes, api_tokens, test_runs, req, credVars,
                    organizations >>

OrgNames == { <<"a", "c", "m", "e">>, <<"o", "l", "d">> }

\* bodies of POST /orgs: two names, one of them taken, and a blank name
OrgBodies == { Obj([name |-> Str(n)]) : n \in OrgNames \cup { <<" ">> } }

\* bodies of POST /projects: a name in the stored organization, in one that
\* does not exist, and without org_id
ProjectBodies ==
    { Obj([name |-> Str(<<"w", "e", "b">>), org_id |-> Str(o)]) :
        o \in { OrgOld, <<"o", "9">> } }
    \cup { Obj([name |-> Str(<<"w", "e", "b">>)]) }

\* the insert succeeds or hits the unique index, or fails with a timeout
OrgFaults == { NoFault, [code |-> 89, message |-> << "connection", "timed", "out" >>] }

\* startServer has run on a database that holds one organization
InitOrgs ==
    /\ phase = "listening"
    /\ indexes \in { createIndexesOrg({}, failAt) : failAt \in 1..(Len(IndexSteps) + 1) }
    /\ api_tokens = {}
    /\ test_runs = {}
    /\ req = [r \in Requests |-> IdleRequest]
    /\ metrics = ZeroMetrics
    /\ projects = {}
    /\ tok = [i \in TokenRequests |-> IdleTokenRequest]
    /\ resolution = NoResolution
    /\ organizations = ExistingOrganizations
    /\ org = [i \in OrgRequests |-> IdleOrgRequest]

NextOrgs ==
    \/ \E i \in OrgRequests, body \in OrgBodies, fault \in OrgFaults :
           CreateOrganization(i, body, fault)
    \/ \E i \in OrgRequests, body \in ProjectBodies : ProjectLookup(i, body)
    \/ \E i \in OrgRequests, fault \in OrgFaults : ProjectInsert(i, fault)
    \/ \E i \in OrgRequests : OrgRespond(i)

OrgSpec == InitOrgs /\ [][NextOrgs]_vars

(***************************************************************************)
(* One ingest request over a space of payloads: every combination of the   *)
(* values below for run_id, environment, timestamp, the six summary fields *)
(* and test_suites.                                                        *)
(***************************************************************************)
RunIdValues ==
    { Undefined, Num(7), Str(<< >>), Str(<<" ">>), Str(<<"b", "a", "d">>),
      Str(TrPrefix), Str(RunIdA) }

EnvironmentValues == { Undefined, Num(1), Str(<<"s", "t", "g">>) }

TimestampValues == { Undefined, Str(<<"x">>), Str(Year) }

\* per summary field, a value that is a non-negative number and one that is not
SummaryFieldValues ==
    [total_test_cases |-> {Num(3), Undefined}, passed |-> {Num(2), Str(<<"2">>)},
     failed |-> {Num(1), Num(-1)}, flaky |-> {Num(0), Null},
     skipped |-> {Num(0), Str(<< >>)}, duration_ms |-> {Num(900), Num(-1)}]

SummaryValues ==
    { Undefined, Str(<<"x">>) }
    \cup { Obj(f) : f \in [total_test_cases : SummaryFieldValues.total_test_cases,
                           passed : SummaryFieldValues.passed,
                           failed : SummaryFieldValues.failed,
                           flaky : SummaryFieldValues.flaky,
                           skipped : SummaryFieldValues.skipped,
                           duration_ms : SummaryFieldValues.duration_ms] }

\* a suite without a name whose test_cases is no array
SuiteBad ==
    Obj([total_cases |-> Num(1), passed |-> Num(0), failed |-> Num(0),
         duration_ms |-> Num(5), test_cases |-> Str(<<"x">>)])

TestSuitesValues ==
    { Undefined, Str(<<"x">>), Arr(<< Suite1 >>), Arr(<< SuiteBad >>), Arr(<< Null >>) }

PayloadSpace ==
    { Obj([run_id |-> i, environment |-> e, timestamp |-> t, summary |-> m,
           test_suites |-> u]) :
        i \in RunIdValues, e \in EnvironmentValues, t \in TimestampValues,
        m \in SummaryValues, u \in TestSuitesValues }

\* the server is up with every index created
InitPayloads ==
    /\ phase = "listening"
    /\ indexes = createIndexes({}, Len(IndexSteps) + 1)
    /\ api_tokens = IssuedCredentials
    /\ test_runs = {}
    /\ req = [r \in Requests |-> IdleRequest]
    /\ metrics = ZeroMetrics
    /\ projects = { [_id |-> p] : p \in Projects }
    /\ tok = [i \in TokenRequests |-> IdleTokenRequest]
    /\ resolution = NoResolution
    /\ organizations = ExistingOrganizations
    /\ org = [i \in OrgRequests |-> IdleOrgRequest]

NextPayloads ==
    \/ /\ req[1].pc = "idle"
       /\ \E body \in PayloadSpace :
              Authenticate(1, Str(BearerPrefix \o RawTokenA), body)
    \/ Validate(1)
    \/ Insert(1, NoFault)
    \/ Respond(1)

PayloadSpec == InitPayloads /\ [][NextPayloads]_vars

(***************************************************************************)
(* The ingest pipeline of a server that stays up, with the scheduling of   *)
(* the event loop.                                                         *)
(***************************************************************************)
\* a request per way the pipeline can end: no header, an unknown token with
\* an invalid payload, and an issued token with a valid payload, an invalid
\* one and one the validator throws on
LiveInputs ==
    { [header |-> Undefined, body |-> BodyFirst],
      [header |-> Str(BearerPrefix \o RawTokenX), body |-> BodyInvalid] }
    \cup { [header |-> Str(BearerPrefix \o RawTokenA), body |-> b] :
             b \in {BodyFirst, BodyInvalid, BodyNullSuite} }

NextLive ==
    \/ \E r \in Requests, in \in LiveInputs : Authenticate(r, in.header, in.body)
    \/ \E r \in Requests : Validate(r)
    \/ \E r \in Requests, fault \in {NoFault} \cup StorageFaults : Insert(r, fault)
    \/ \E r \in Requests : Respond(r)

\* the event loop runs the continuation of every await that settled: a request
\* that can take its next step takes it
Fairness ==
    \A r \in Requests :
        /\ WF_vars(Validate(r))
        /\ WF_vars(\E fault \in {NoFault} \cup StorageFaults : Insert(r, fault))
        /\ WF_vars(Respond(r))

FairSpec == InitPayloads /\ [][NextLive]_vars /\ Fairness

(***************************************************************************)
(* Crashes and retries: the process can end while requests are in flight   *)
(* and is started again on the same database; clients send the same run    *)
(* again.                                                                  *)
(***************************************************************************)
InFlight(r) == req[r].pc \in {"authenticated", "validated", "inserted"}

\* the process ends: requests in flight get no response, the in-memory
\* counters are lost, the database keeps its documents and indexes; the
\* process is then started again (startServer)
Crash ==
    /\ phase \in {"connected", "listening"}
    /\ phase' = "starting"
    /\ req' = [r \in Requests |->
                 IF InFlight(r) THEN [req[r] EXCEPT !.pc = "aborted"] ELSE req[r]]
    /\ metrics' = ZeroMetrics
    /\ UNCHANGED << indexes, api_tokens, test_runs, credVars, orgVars >>

\* one client (one credential) sending one run, again and again
RetryInputs ==
    { [header |-> Str(BearerPrefix \o RawTokenA), body |-> b] :
        b \in {BodyFirst, BodyRetry} }

NextRetry ==
    \/ ConnectDatabase
    \/ Listen
    \/ Crash
    \/ \E r \in Requests, in \in RetryInputs : Authenticate(r, in.header, in.body)
    \/ \E r \in Requests : Validate(r)
    \/ \E r \in Requests, fault \in {NoFault} \cup StorageFaults : Insert(r, fault)
    \/ \E r \in Requests : Respond(r)

RetrySpec == Init /\ [][NextRetry]_vars

(***************************************************************************)
(* Requests for different runs: two projects and two run ids, on a server  *)
(* that came up with whatever indexes createIndexes managed to create.     *)
(***************************************************************************)
RunIdB == <<"t", "r", "_", "b">>

\* a valid payload for another run
BodyOther ==
    Obj([run_id |-> Str(RunIdB), environment |-> Str(<<"s", "t", "g">>),
         timestamp |-> Str(Year), summary |-> Summary2])

KeyInputs ==
    { [header |-> Str(BearerPrefix \o t), body |-> b] :
        t \in {RawTokenA, RawTokenB}, b \in {BodyFirst, BodyOther} }

\* startServer has run: connectDatabase returned and the server listens
InitServing ==
    /\ phase = "listening"
    /\ indexes \in { createIndexes({}, failAt) : failAt \in 1..(Len(IndexSteps) + 1) }
    /\ api_tokens = IssuedCredentials
    /\ test_runs = {}
    /\ req = [r \in Requests |-> IdleRequest]
    /\ metrics = ZeroMetrics
    /\ projects = { [_id |-> p] : p \in Projects }
    /\ tok = [i \in TokenRequests |-> IdleTokenRequest]
    /\ resolution = NoResolution
    /\ organizations = ExistingOrganizations
    /\ org = [i \in OrgRequests |-> IdleOrgRequest]

NextKeys ==
    \/ \E r \in Requests, in \in KeyInputs : Authenticate(r, in.header, in.body)
    \/ \E r \in Requests : Validate(r)
    \/ \E r \in Requests, fault \in {NoFault} \cup StorageFaults : Insert(r, fault)
    \/ \E r \in Requests : Respond(r)

KeysSpec == InitServing /\ [][NextKeys]_vars

(***************************************************************************)
(* Two credentials issued for one project, presented by the requests of    *)
(* NextKeys, on a server that came up with the indexes createIndexes left. *)
(***************************************************************************)
\* the api_tokens collection as persisted: two credentials of project p1
SharedCredentials ==
    { [_id |-> "k1", project_id |-> ProjectP1, token_hash |-> hashToken(RawTokenA, 1)],
      [_id |-> "k2", project_id |-> ProjectP1, token_hash |-> hashToken(RawTokenB, 2)] }

InitShared ==
    /\ phase = "listening"
    /\ indexes \in { createIndexes({}, failAt) : failAt \in 1..(Len(IndexSteps) + 1) }
    /\ api_tokens = SharedCredentials
    /\ test_runs = {}
    /\ req = [r \in Requests |-> IdleRequest]
    /\ metrics = ZeroMetrics
    /\ projects = { [_id |-> p] : p \in Projects }
    /\ tok = [i \in TokenRequests |-> IdleTokenRequest]
    /\ resolution = NoResolution
    /\ organizations = ExistingOrganizations
    /\ org = [i \in OrgRequests |-> IdleOrgRequest]

SharedSpec == InitShared /\ [][NextKeys]_vars

(***************************************************************************)
(* Both mutations on one server: projects are created, tokens are issued   *)
(* and runs are ingested with them, on a database that was empty when the  *)
(* server came up with every index created.                                *)
(***************************************************************************)
FrameInputs ==
    { [header |-> Str(BearerPrefix \o RawTokenA), body |-> b] :
        b \in {BodyFirst, BodyInvalid} }

\* the insert succeeds or hits the unique index, or fails with a timeout
FrameFaults == { NoFault, [code |-> 89, message |-> << "connection", "timed", "out" >>] }

NextFrame ==
    \/ ProjectCreate(ProjectP1)
    \/ \E i \in TokenRequests, body \in TokenBodies : TokenLookup(i, body)
    \/ \E i \in TokenRequests, rawToken \in {RawTokenA, RawTokenB}, fault \in BOOLEAN :
           TokenCreate(i, rawToken, 1, fault)
    \/ \E r \in Requests, in \in FrameInputs : Authenticate(r, in.header, in.body)
    \/ \E r \in Requests : Validate(r)
    \/ \E r \in Requests, fault \in FrameFaults : Insert(r, fault)
    \/ \E r \in Requests : Respond(r)

FrameSpec == InitCredentials /\ [][NextFrame]_vars

(***************************************************************************)
(* Valid payloads of every shape: both run ids, two environments, a        *)
(* summary with an extra property, one with a number beyond the range of a *)
(* double, and test_suites present or absent.                              *)
(***************************************************************************)
\* a summary with a property the validator does not know
SummaryExtra ==
    Obj([total_test_cases |-> Num(1), passed |-> Num(1), failed |-> Num(0),
         flaky |-> Num(0), skipped |-> Num(0), duration_ms |-> Num(0),
         note |-> Str(<<"n">>)])

\* "duration_ms": 1e999 in the request body
SummaryInfinite ==
    Obj([total_test_cases |-> Num(3), passed |-> Num(2), failed |-> Num(1),
         flaky |-> Num(0), skipped |-> Num(0), duration_ms |-> Infinity])

EchoBodies ==
    { Obj([run_id |-> Str(i), environment |-> Str(e), timestamp |-> Str(Year),
           summary |-> m, test_suites |-> u]) :
        i \in {RunIdA, RunIdB}, e \in {<<"s", "t", "g">>, <<"p", "r", "d">>},
        m \in {Summary1, SummaryExtra, SummaryInfinite},
        u \in {Undefined, Arr(<< Suite1 >>)} }

NextEcho ==
    \/ \E r \in Requests :
           /\ req[r].pc = "idle"
           /\ \E body \in EchoBodies :
                  Authenticate(r, Str(BearerPrefix \o RawTokenA), body)
    \/ \E r \in Requests : Validate(r)
    \/ \E r \in Requests : Insert(r, NoFault)
    \/ \E r \in Requests : Respond(r)

EchoSpec == InitPayloads /\ [][NextEcho]_vars

(***************************************************************************)
(* One ingest whose payload takes, in environment, the six summary fields  *)
(* and test_suites, the values the defaults of TestRun.create could        *)
(* replace: the empty string, zero, a missing field, null and the empty    *)
(* array, next to ordinary values.                                         *)
(***************************************************************************)
RecordBodies ==
    LET environments ==
            { Undefined, Str(<< >>), Str(<<" ">>), Str(<<"s", "t", "g">>),
              Str(<<"u", "n", "k", "n", "o", "w", "n">>) }
        summaries ==
            { Obj(f) : f \in [total_test_cases : {Num(0), Num(3), Undefined},
                               passed : {Num(0), Num(2)},
                               failed : {Num(0), Null},
                               flaky : {Num(0), Num(1)},
                               skipped : {Num(0), Str(<< >>)},
                               duration_ms : {Num(0), Num(900), Infinity}] }
        suites == { Undefined, Null, Arr(<< >>), Arr(<< Suite1 >>) }
    IN  { Obj([run_id |-> Str(RunIdA), environment |-> e, timestamp |-> Str(Year),
               summary |-> m, test_suites |-> u]) :
            e \in environments, m \in summaries, u \in suites }

NextRecord ==
    \/ /\ req[1].pc = "idle"
       /\ \E body \in RecordBodies :
              Authenticate(1, Str(BearerPrefix \o RawTokenA), body)
    \/ Validate(1)
    \/ Insert(1, NoFault)
    \/ Respond(1)

RecordSpec == InitPayloads /\ [][NextRecord]_vars

(***************************************************************************)
(* Payloads whose test_suites or test_cases arrays hold elements of every  *)
(* JSON type, the other fields being valid.                                *)
(***************************************************************************)
\* a valid suite with these test cases
SuiteWith(cases) ==
    Obj([suite_name |-> Str(<<"s">>), total_cases |-> Num(1), passed |-> Num(0),
         failed |-> Num(0), duration_ms |-> Num(5), test_cases |-> cases])

\* elements that are no object: null, a number, a string, an array
NonObjectElements == { Null, Num(5), Str(<<"x">>), Arr(<< >>) }

ElementSuites ==
    { Arr(<< Suite1 >>), Arr(<< >>) }
    \cup { Arr(<< e >>) : e \in NonObjectElements }
    \cup { Arr(<< Suite1, e >>) : e \in NonObjectElements }
    \cup { Arr(<< SuiteWith(Arr(<< e >>)) >>) : e \in NonObjectElements }

ElementBodies ==
    { Obj([run_id |-> Str(RunIdA), environment |-> Str(<<"s", "t", "g">>),
           timestamp |-> Str(Year), summary |-> Summary1, test_suites |-> u]) :
        u \in ElementSuites }

NextElements ==
    \/ \E r \in Requests :
           /\ req[r].pc = "idle"
           /\ \E body \in ElementBodies :
                  Authenticate(r, Str(BearerPrefix \o RawTokenA), body)
    \/ \E r \in Requests : Validate(r)
    \/ \E r \in Requests : Insert(r, NoFault)
    \/ \E r \in Requests : Respond(r)

ElementSpec == InitPayloads /\ [][NextElements]_vars

(***************************************************************************)
(* Vocabulary of the properties.                                           *)
(***************************************************************************)
Arrived(r) == req[r].pc # "idle"
Done(r) == req[r].pc = "done"
Status(r) == req[r].response.status
IsCreated(r) == Done(r) /\ Status(r) = 201
IsDuplicate(r) == Done(r) /\ Status(r) = 200 /\ req[r].response.body.duplicate

\* the insert of the request was attempted, and the store answered it (with
\* success or with a duplicate-key error) instead of failing
Attempted(r) == req[r].inserts > 0
StoreAnswered(r) == Attempted(r) /\ req[r].dbOutcome # "fault"

\* the key of a request that was authenticated, and of a stored run
RunKey(r) == << req[r].auth.projectId, Get(req[r].body, "run_id") >>
DocKey(d) == << d.project_id, d.run_id >>
RunsWithKey(k) == { d \in test_runs : DocKey(d) = k }

\* the token a request presented
PresentedToken(r) == Substring(req[r].header.v, 7)

(***************************************************************************)
(* C1.  Sequential idempotency: an ingest whose insert the store answers   *)
(* yields Created (201, echoing the payload's run_id) when no run with its *)
(* key was stored before; an ingest that arrives after a Created for its   *)
(* key yields Duplicate (200, duplicate: true), whatever the other fields  *)
(* of its payload, never a second Created and never an error.              *)
(***************************************************************************)
C1_SequentialIdempotency ==
    \A r \in Requests :
        (Done(r) /\ StoreAnswered(r)) =>
            /\ req[r].priorCreated => IsDuplicate(r)
            /\ ~req[r].keyBefore =>
                   /\ IsCreated(r)
                   /\ req[r].response.body.run_id = Get(req[r].body, "run_id")

(***************************************************************************)
(* C2.  Concurrent identical submissions: of the requests with one key     *)
(* that are in flight together (each has had its insert answered, none has *)
(* responded yet), the key being absent before the first of them, exactly  *)
(* one is about to observe Created, the others Duplicate, and the store    *)
(* holds exactly one record for the key.                                   *)
(***************************************************************************)
InFlightAnswered(k) ==
    { r \in Requests : req[r].pc = "inserted" /\ StoreAnswered(r) /\ RunKey(r) = k }

C2_ConcurrentExactlyOneCreated ==
    \A p \in Projects, body \in Bodies :
        LET k == << p, Get(body, "run_id") >>
            S == InFlightAnswered(k)
        IN  (Cardinality(S) >= 2 /\ \E r \in S : ~req[r].keyBefore) =>
                /\ Cardinality({ r \in S : ~req[r].result.duplicate }) = 1
                /\ Cardinality(RunsWithKey(k)) = 1

(***************************************************************************)
(* C3.  Key uniqueness: no two stored runs have the same                   *)
(* (project_id, run_id).                                                   *)
(***************************************************************************)
C3_KeyUnique ==
    \A d1, d2 \in test_runs : DocKey(d1) = DocKey(d2) => d1 = d2

(***************************************************************************)
(* C4.  Cross-tenant isolation: an ingest whose insert the store answers   *)
(* and whose own (project, run_id) was not stored before yields Created,   *)
(* whatever other projects stored under that run_id; when two projects     *)
(* were each answered Created for one run_id the store holds a record for  *)
(* each of them.                                                           *)
(***************************************************************************)
C4_CrossTenantIsolation ==
    /\ \A r \in Requests :
           (StoreAnswered(r) /\ ~req[r].keyBefore) =>
               /\ req[r].dbOutcome = "inserted"
               /\ ~req[r].result.threw /\ ~req[r].result.duplicate
               /\ Done(r) => IsCreated(r)
    /\ \A r1, r2 \in Requests :
           (/\ IsCreated(r1) /\ IsCreated(r2)
            /\ Get(req[r1].body, "run_id") = Get(req[r2].body, "run_id")
            /\ req[r1].auth.projectId # req[r2].auth.projectId) =>
               /\ RunsWithKey(RunKey(r1)) # {}
               /\ RunsWithKey(RunKey(r2)) # {}
               /\ RunsWithKey(RunKey(r1)) \cap RunsWithKey(RunKey(r2)) = {}

\* one run_id was ingested under two projects while the unique index exists:
\* both were answered Created
C4_Witness ==
    /\ UniqueRunIndex \in indexes
    /\ \E r1, r2 \in Requests :
           /\ IsCreated(r1) /\ IsCreated(r2)
           /\ Get(req[r1].body, "run_id") = Get(req[r2].body, "run_id")
           /\ req[r1].auth.projectId = ProjectP1
           /\ req[r2].auth.projectId = ProjectP2
           /\ Cardinality(test_runs) = 2

(***************************************************************************)
(* C5.  Tenant binding: every stored run carries the project of the        *)
(* credential that authenticated the request which created it, whatever    *)
(* the body says (a project_id in the body included).                      *)
(***************************************************************************)
C5_TenantBinding ==
    \A d \in test_runs :
        LET r == d._id IN
        /\ req[r].auth # NoAuth
        /\ d.project_id = req[r].auth.projectId
        /\ \E c \in api_tokens :
               /\ c._id = req[r].auth.tokenId
               /\ c.project_id = d.project_id
               /\ verifyToken(PresentedToken(r), c.token_hash)

\* a run was stored for a request whose body named another project
C5_Witness ==
    \E d \in test_runs :
        /\ Get(req[d._id].body, "project_id") = Str(ProjectP2)
        /\ d.project_id = ProjectP1

(***************************************************************************)
(* C6.  Unauthorized: a request whose Authorization header is missing,     *)
(* does not start with 'Bearer ', carries an empty token, or carries a     *)
(* token that the credential lookup matched with no stored credential ends *)
(* with 401; it gets no project identity, is neither validated nor         *)
(* inserted, and stores no run.                                            *)
(***************************************************************************)
HeaderMissing(h) == h.t = "undefined"
HeaderNotBearer(h) == h.t = "string" /\ ~StartsWith(h.v, BearerPrefix)
HeaderEmptyToken(h) == h.t = "string" /\ h.v = BearerPrefix
HeaderUnknownToken(h) ==
    /\ h.t = "string" /\ StartsWith(h.v, BearerPrefix) /\ h.v # BearerPrefix
    /\ \A c \in api_tokens : ~verifyToken(Substring(h.v, 7), c.token_hash)

C6_Unauthorized ==
    \A r \in Requests :
        (/\ Arrived(r)
         /\ \/ HeaderMissing(req[r].header)
            \/ HeaderNotBearer(req[r].header)
            \/ HeaderEmptyToken(req[r].header)
            \/ HeaderUnknownToken(req[r].header) /\ req[r].lookup # "threw") =>
            /\ Done(r) /\ Status(r) = 401
            /\ req[r].response.body.error = "Unauthorized"
            /\ req[r].auth = NoAuth
            /\ req[r].errors = << >>
            /\ req[r].inserts = 0
            /\ \A d \in test_runs : d._id # r

\* one request was turned away for its header and one for an unknown token
C6_Witness ==
    \E r1, r2 \in Requests :
        /\ HeaderNotBearer(req[r1].header) /\ Done(r1) /\ Status(r1) = 401
        /\ HeaderUnknownToken(req[r2].header) /\ Done(r2) /\ Status(r2) = 401

(***************************************************************************)
(* C7.  Validation gates persistence: an authenticated request whose       *)
(* payload breaks a validation rule ends with 400 and the list of errors,  *)
(* no insert is attempted for it and it stores no run.                     *)
(***************************************************************************)
\* the payload breaks a rule of the validator: a field rule, or an element of
\* test_suites / test_cases that is no object
BreaksRule(body) ==
    \/ RunIdErrors(body) # << >>
    \/ EnvironmentErrors(body) # << >>
    \/ TimestampErrors(body) # << >>
    \/ SummaryErrors(body) # << >>
    \/ ValidateThrows(body)
    \/ ~ValidateThrows(body) /\ TestSuitesErrors(body) # << >>

C7_ValidationGatesPersistence ==
    \A r \in Requests :
        (req[r].auth # NoAuth /\ BreaksRule(req[r].body) /\ req[r].pc # "authenticated") =>
            /\ Done(r) /\ Status(r) = 400
            /\ req[r].response.body.details # << >>
            /\ req[r].inserts = 0
            /\ \A d \in test_runs : d._id # r

(***************************************************************************)
(* C8.  Duplicate is a success: a request whose insert hit the unique      *)
(* index on (project_id, run_id) ends with 200, duplicate: true and its    *)
(* run_id, never with another status.                                      *)
(***************************************************************************)
C8_DuplicateIsSuccess ==
    \A r \in Requests :
        req[r].dbOutcome = "E11000" =>
            /\ ~req[r].result.threw /\ req[r].result.duplicate
            /\ Done(r) =>
                   /\ Status(r) = 200
                   /\ req[r].response.body.duplicate = TRUE
                   /\ req[r].response.body.run_id = Get(req[r].body, "run_id")

\* a request that hit the unique index has been answered
C8_Witness ==
    \E r \in Requests : Done(r) /\ req[r].dbOutcome = "E11000" /\ req[r].keyBefore

(***************************************************************************)
(* C9.  Storage faults are not duplicates: a request whose insert failed   *)
(* for another reason than the unique index ends with 500, whatever the    *)
(* text of the error.                                                      *)
(***************************************************************************)
C9_FaultIsInternalError ==
    \A r \in Requests :
        (req[r].dbOutcome = "fault" /\ Done(r)) => Status(r) = 500

(***************************************************************************)
(* C10. Soundness of the outcomes: a request answered Duplicate has a run  *)
(* with its key in the store; a request answered Created found no run with *)
(* its key before its insert and the store holds exactly one afterwards.   *)
(***************************************************************************)
C10_OutcomesSound ==
    \A r \in Requests :
        /\ IsDuplicate(r) => RunsWithKey(RunKey(r)) # {}
        /\ IsCreated(r) =>
               /\ ~req[r].keyBefore
               /\ Cardinality(RunsWithKey(RunKey(r))) = 1

(***************************************************************************)
(* Vocabulary of the credential properties.                                *)
(***************************************************************************)
\* the issuance request was answered 201
Issued(i) == tok[i].pc = "done" /\ tok[i].response.status = 201

\* the project a token request named
RequestedProject(i) == Get(tok[i].body, "project_id").v

\* the issuance requests whose credential is among these documents
IssuedAmong(tokens) ==
    { i \in TokenRequests :
        Issued(i) /\ \E c \in tokens : c._id = tok[i].response.body.id }

(***************************************************************************)
(* C11.  Credential resolution: whenever ApiToken.authenticate is called   *)
(* with the raw token of a credential that is among the stored ones, it    *)
(* returns that credential's id and the project the credential was issued  *)
(* for, whatever other credentials are stored and whichever match the scan *)
(* stops at; called with a token that differs from the raw token of every  *)
(* stored credential, it returns null.                                     *)
(***************************************************************************)
C11_CredentialResolution ==
    resolution # NoResolution =>
        /\ \A i \in IssuedAmong(resolution.tokens) :
               tok[i].rawToken = resolution.token =>
                   resolution.result =
                       [t |-> "auth", tokenId |-> tok[i].response.body.id,
                        projectId |-> RequestedProject(i)]
        /\ (\A i \in IssuedAmong(resolution.tokens) :
                tok[i].rawToken # resolution.token) =>
               resolution.result = Null

\* a token resolved to its project while another credential was stored, the
\* presented token being one character away from nothing stored
C11_Witness ==
    /\ Cardinality(resolution.tokens) >= 2
    /\ resolution.result # Null
    /\ \E i \in IssuedAmong(resolution.tokens) :
           /\ tok[i].rawToken = resolution.token
           /\ resolution.result.projectId = RequestedProject(i)

(***************************************************************************)
(* C12.  Raw token secrecy: every stored credential has exactly the fields *)
(* _id, project_id and token_hash, and token_hash is the salted hash of    *)
(* the raw token generated for it, never the raw token; a generated raw    *)
(* token is in the response of the issuance request that generated it when *)
(* that request was answered 201, and in no other response and in no       *)
(* result of a later authentication.                                       *)
(***************************************************************************)
\* the response carries this raw token
ResponseHolds(response, token) ==
    /\ response.status # 0
    /\ "token" \in DOMAIN response.body
    /\ response.body.token = token

CredentialFields == {"_id", "project_id", "token_hash"}

C12_RawTokenSecrecy ==
    /\ \A c \in api_tokens :
           /\ DOMAIN c = CredentialFields
           /\ \E i \in IssuedAmong({c}) :
                  c.token_hash = hashToken(tok[i].rawToken, c.token_hash.salt)
    /\ \A i \in TokenRequests :
           tok[i].rawToken # << >> =>
               /\ { j \in TokenRequests : ResponseHolds(tok[j].response, tok[i].rawToken) }
                      = IF Issued(i) THEN {i} ELSE {}
               /\ \A r \in Requests : ~ResponseHolds(req[r].response, tok[i].rawToken)
               /\ resolution.result # Undefined /\ resolution.result # Null =>
                      /\ DOMAIN resolution.result = {"t", "tokenId", "projectId"}
                      /\ resolution.result.projectId # tok[i].rawToken

\* two credentials were issued and one of them was presented and resolved later
C12_Witness ==
    /\ Cardinality(api_tokens) = 2
    /\ \A i \in TokenRequests : Issued(i)
    /\ resolution.result # Undefined /\ resolution.result # Null
    /\ \E i \in TokenRequests : resolution.token = tok[i].rawToken

(***************************************************************************)
(* C13.  Token issuance for a missing project: a token request that names  *)
(* a project id no stored project has (projects are never removed, so none *)
(* had it when the request was served), and whose project lookup returned, *)
(* ends with 404 Not Found, its response carries no token, no raw token    *)
(* was generated for it and no credential is stored for it or for that     *)
(* project id.                                                             *)
(***************************************************************************)
\* the request named a project id, and no stored project has it
NamesMissingProject(i) ==
    /\ tok[i].pc # "idle"
    /\ validateToken(tok[i].body) = << >>
    /\ \A d \in projects : d._id # RequestedProject(i)

C13_MissingProjectNotFound ==
    \A i \in TokenRequests :
        (NamesMissingProject(i) /\ tok[i].lookup # "threw") =>
            /\ tok[i].pc = "done"
            /\ tok[i].response.status = 404
            /\ "token" \notin DOMAIN tok[i].response.body
            /\ tok[i].rawToken = << >>
            /\ \A c \in api_tokens :
                   c._id # "k" \o ToString(i) /\ c.project_id # RequestedProject(i)

\* a request for a missing project was answered while another project and a
\* credential for it exist
C13_Witness ==
    /\ api_tokens # {}
    /\ \E i \in TokenRequests :
           NamesMissingProject(i) /\ tok[i].response.status = 404

(***************************************************************************)
(* C14.  Credential-to-project invariant: in every reachable state, under  *)
(* every interleaving of project creation and token issuance, each stored  *)
(* credential is the only document with its _id, carries a project_id, a   *)
(* stored project has that id, and the project_id is still the one named   *)
(* by the issuance request that created the credential.                    *)
(***************************************************************************)
C14_CredentialProject ==
    \A c \in api_tokens :
        /\ \A c2 \in api_tokens : c2._id = c._id => c2 = c
        /\ "project_id" \in DOMAIN c
        /\ \E d \in projects : d._id = c.project_id
        /\ \E i \in IssuedAmong({c}) : c.project_id = RequestedProject(i)

\* a request that named a project before it was created was answered 404;
\* the project was created afterwards and a credential was issued for it
C14_Witness ==
    \E i \in TokenRequests :
        /\ tok[i].lookup = "missing"
        /\ \E d \in projects : d._id = RequestedProject(i)
        /\ \E c \in api_tokens : c.project_id = RequestedProject(i)

(***************************************************************************)
(* Vocabulary of the validation properties: the rules as the design states *)
(* them, and the entries of the error list that report each rule.          *)
(***************************************************************************)
NonEmptyString(x) == x.t = "string" /\ x.v # << >>
NonNegativeNumber(x) == x.t = "number" /\ x.v >= 0

ViolatesRunId(body) ==
    LET x == Get(body, "run_id") IN
    ~(NonEmptyString(x) /\ StartsWith(x.v, TrPrefix) /\ Len(x.v) > Len(TrPrefix))

ViolatesEnvironment(body) == ~NonEmptyString(Get(body, "environment"))

ViolatesTimestamp(body) ==
    LET x == Get(body, "timestamp") IN
    ~(x.t = "string" /\ x.v \in ParseableTimestamps)

SummaryIsObject(body) == Get(body, "summary").t = "object"

ViolatesSummaryField(body, f) ==
    SummaryIsObject(body) /\ ~NonNegativeNumber(Get(Get(body, "summary"), f))

PrefixEntry == "run_id must start with \"tr_\" prefix (e.g., tr_my_test_run_123)"
AfterPrefixEntry == "run_id must have at least one character after \"tr_\" prefix"

RunIdEntries ==
    { "run_id is required and must be a string", "run_id cannot be empty",
      PrefixEntry, AfterPrefixEntry }
EnvironmentEntries == { "environment is required and must be a string" }
TimestampEntries ==
    { "timestamp is required and must be a string",
      "timestamp must be a valid ISO 8601 date string" }
SummaryFieldEntries(f) == { "summary." \o f \o " must be a non-negative number" }

\* the error list of the 400 response of a request, empty for any other response
Details(r) ==
    IF Done(r) /\ Status(r) = 400 THEN req[r].response.body.details ELSE << >>

\* the list has exactly one entry out of this set
OneEntry(details, entries) ==
    Cardinality({ k \in DOMAIN details : details[k] \in entries }) = 1

\* the request went through validation
PastValidation(r) ==
    req[r].auth # NoAuth /\ req[r].pc \in {"validated", "inserted", "done"}

(***************************************************************************)
(* C15.  Validation completeness: for every payload of an authenticated    *)
(* request, each violated rule among run_id, environment, timestamp and    *)
(* each of the six summary fields has its own entry in the error list of a *)
(* 400 response; a payload that lacks environment and has summary.passed   *)
(* as a string gets a 400 listing both.                                    *)
(***************************************************************************)
C15_ValidationCompleteness ==
    \A r \in Requests :
        PastValidation(r) =>
            LET b == req[r].body IN
            /\ ViolatesRunId(b) => OneEntry(Details(r), RunIdEntries)
            /\ ViolatesEnvironment(b) => OneEntry(Details(r), EnvironmentEntries)
            /\ ViolatesTimestamp(b) => OneEntry(Details(r), TimestampEntries)
            /\ \A k \in DOMAIN SummaryFields :
                   ViolatesSummaryField(b, SummaryFields[k]) =>
                       OneEntry(Details(r), SummaryFieldEntries(SummaryFields[k]))

(***************************************************************************)
(* C16.  run_id prefix rule: an authenticated ingest whose run_id is a     *)
(* non-empty string that does not start with 'tr_' ends with 400 and the   *)
(* entry of the prefix rule; one whose run_id is exactly 'tr_' ends with   *)
(* 400 and the entry asking for a character after the prefix; no insert    *)
(* is attempted and no run is stored in either case.                       *)
(***************************************************************************)
C16_RunIdPrefixRule ==
    \A r \in Requests :
        PastValidation(r) =>
            LET x == Get(req[r].body, "run_id") IN
            /\ (NonEmptyString(x) /\ ~StartsWith(x.v, TrPrefix)) =>
                   /\ OneEntry(Details(r), {PrefixEntry})
                   /\ req[r].inserts = 0 /\ test_runs = {}
            /\ x = Str(TrPrefix) =>
                   /\ OneEntry(Details(r), {AfterPrefixEntry})
                   /\ req[r].inserts = 0 /\ test_runs = {}

(***************************************************************************)
(* C17.  Run immutability: the record a request's insert stored stays in   *)
(* test_runs exactly as that request wrote it, whatever requests follow;   *)
(* an ingest whose insert the store answered while a record with its key   *)
(* was already stored ends Duplicate, and the key still has the one record *)
(* of the first submission.                                                *)
(***************************************************************************)
\* the record the insert of request r wrote
Written(r) == TestRunDocument(ControllerData(req[r].auth, req[r].body), r)

C17_RunImmutable ==
    \A r \in Requests :
        /\ req[r].dbOutcome = "inserted" =>
               /\ Written(r) \in test_runs
               /\ \A d \in test_runs : d._id = r => d = Written(r)
        /\ (Done(r) /\ StoreAnswered(r) /\ req[r].keyBefore) =>
               /\ IsDuplicate(r)
               /\ \E q \in Requests \ {r} : RunsWithKey(RunKey(r)) = {Written(q)}

(***************************************************************************)
(* C18.  Retry safety across lost responses and crashes: when a client     *)
(* sends the same (project, run_id) again and again, with crashes of the   *)
(* server in between, the key never has more than one record, and has one  *)
(* once a request for it ended Created or Duplicate; a request whose       *)
(* insert the store answered ends Duplicate when a record with the key was *)
(* already stored, and Created when none was (the earlier requests         *)
(* crashed before their insert).                                           *)
(***************************************************************************)
Aborted(r) == req[r].pc = "aborted"

C18_RetrySafety ==
    \A r \in Requests :
        req[r].auth # NoAuth =>
            /\ Cardinality(RunsWithKey(RunKey(r))) <= 1
            /\ (IsCreated(r) \/ IsDuplicate(r)) =>
                   Cardinality(RunsWithKey(RunKey(r))) = 1
            /\ (Done(r) /\ StoreAnswered(r)) =>
                   IF req[r].keyBefore THEN IsDuplicate(r) ELSE IsCreated(r)

(***************************************************************************)
(* C19.  Pipeline ordering: a request is validated only after its token    *)
(* resolved to a project, and its insert is attempted only after the       *)
(* validator returned an empty list for its payload; a request that got no *)
(* project identity never ends with 400, so one with an unresolvable token *)
(* and an invalid payload ends with 401.                                   *)
(***************************************************************************)
\* validation has run for the request
Validated(r) ==
    \/ req[r].pc \in {"validated", "inserted"}
    \/ req[r].errors # << >>
    \/ Done(r) /\ Status(r) \in {200, 201, 400}

C19_PipelineOrder ==
    \A r \in Requests :
        /\ Validated(r) => req[r].auth # NoAuth /\ req[r].lookup = "returned"
        /\ Attempted(r) =>
               /\ req[r].auth # NoAuth
               /\ validateTestRun(req[r].body) = [threw |-> FALSE, errors |-> << >>]
        /\ (Done(r) /\ req[r].auth = NoAuth) => Status(r) \in {401, 500}
        /\ (Done(r) /\ HeaderUnknownToken(req[r].header) /\ req[r].lookup = "returned") =>
               Status(r) = 401

\* a request with an unknown token and an invalid payload was answered 401,
\* and another request went through the three steps
C19_Witness ==
    /\ \E r \in Requests :
           /\ Done(r) /\ Status(r) = 401
           /\ HeaderUnknownToken(req[r].header)
           /\ HasErrors(validateTestRun(req[r].body).errors)
    /\ \E r \in Requests : Attempted(r) /\ Done(r)

(***************************************************************************)
(* C20.  Termination with exactly one outcome: every ingest request that   *)
(* arrived is eventually answered; the answer is one of Unauthorized       *)
(* (401), BadRequest (400), Created (201), Duplicate (200 with             *)
(* duplicate: true) and InternalFault (500); and once a request is         *)
(* answered, its response is never sent again or changed.                  *)
(***************************************************************************)
Outcome(r) ==
    CASE Status(r) = 401 -> "Unauthorized"
      [] Status(r) = 400 -> "BadRequest"
      [] Status(r) = 201 -> "Created"
      [] Status(r) = 200 /\ req[r].response.body.duplicate -> "Duplicate"
      [] Status(r) = 500 -> "InternalFault"
      [] OTHER -> "none"

C20_Terminates ==
    /\ \A r \in Requests : Arrived(r) ~> Done(r)
    /\ [](\A r \in Requests : Done(r) => Outcome(r) # "none")
    /\ [][\A r \in Requests : Done(r) => req'[r] = req[r]]_vars

\* every request was answered, one of them with an internal fault after its
\* insert failed and one with Created
C20_Witness ==
    /\ \A r \in Requests : Done(r)
    /\ \E r \in Requests : Outcome(r) = "InternalFault" /\ Attempted(r)
    /\ \E r \in Requests : Outcome(r) = "Created"

(***************************************************************************)
(* C21.  No internal retries: a request makes at most one insert attempt   *)
(* on test_runs, whether the attempt succeeded, hit the unique index or    *)
(* failed with a storage fault; once the attempt is made the request only  *)
(* goes on to its response, and it stores at most one record.              *)
(***************************************************************************)
C21_NoInternalRetry ==
    \A r \in Requests :
        /\ req[r].inserts <= 1
        /\ Attempted(r) => req[r].pc \in {"inserted", "done", "aborted"}
        /\ Cardinality({ d \in test_runs : d._id = r }) <= 1

\* one request was answered 500 after its one attempt failed with a storage
\* fault, and another was answered after its one attempt
C21_Witness ==
    \E r1, r2 \in Requests :
        /\ r1 # r2
        /\ Done(r1) /\ req[r1].dbOutcome = "fault" /\ Status(r1) = 500
        /\ req[r1].inserts = 1
        /\ Done(r2) /\ req[r2].dbOutcome \in {"inserted", "E11000"}
        /\ req[r2].inserts = 1

(***************************************************************************)
(* C22.  Independence across keys: a request whose (project_id, run_id)    *)
(* differs from the key of every other request gets, in every              *)
(* interleaving, the response it gets when it runs alone on the empty      *)
(* store with the same behaviour of the storage engine, and the store      *)
(* holds for it exactly the record it stores when alone; when its insert   *)
(* was answered it is stored and ends Created, never Duplicate or a fault. *)
(***************************************************************************)
\* no other request has the key of r
KeyOfItsOwn(r) ==
    \A q \in Requests \ {r} : req[q].auth # NoAuth => RunKey(q) # RunKey(r)

\* the response to r when r is the only request, the storage engine failing
\* its insert with this fault or not at all
AloneResponse(r, fault) ==
    LET data == ControllerData(req[r].auth, req[r].body) IN
    ControllerResponse(req[r].body,
        ServiceIngestTestRun(TestRunCreate({}, indexes, data, r, fault), data))

\* the records r leaves in the store when it is the only request
AloneStore(r, fault) ==
    IF insertOne({}, indexes, Written(r), fault).ok THEN {Written(r)} ELSE {}

C22_KeyIndependence ==
    \A r \in Requests :
        (Attempted(r) /\ KeyOfItsOwn(r)) =>
            /\ \E fault \in {NoFault} \cup StorageFaults :
                   /\ fault = NoFault <=> req[r].dbOutcome # "fault"
                   /\ { d \in test_runs : d._id = r } = AloneStore(r, fault)
                   /\ Done(r) => req[r].response = AloneResponse(r, fault)
            /\ StoreAnswered(r) =>
                   /\ req[r].dbOutcome = "inserted"
                   /\ Done(r) => IsCreated(r)

\* two runs of one project were both answered Created with the unique index
\* in place, and both are stored
C22_Witness ==
    /\ UniqueRunIndex \in indexes
    /\ \E r1, r2 \in Requests :
           /\ IsCreated(r1) /\ IsCreated(r2)
           /\ req[r1].auth.projectId = req[r2].auth.projectId
           /\ Get(req[r1].body, "run_id") = Str(RunIdA)
           /\ Get(req[r2].body, "run_id") = Str(RunIdB)
           /\ Written(r1) \in test_runs /\ Written(r2) \in test_runs

(***************************************************************************)
(* C23.  Frame of the two mutations: a step of an ingest request leaves    *)
(* the credentials, the projects and the indexes as they are, keeps every  *)
(* stored run unchanged and adds at most one run, none when the step is    *)
(* the authentication or the validation; over all its steps a request adds *)
(* at most one run.  A step of a token-issuance request leaves the runs    *)
(* and the projects as they are, keeps every stored credential and adds at *)
(* most one; over all its steps a request adds at most one credential.     *)
(***************************************************************************)
IngestStep(r) == req'[r] # req[r]
TokenStep(i) == tok'[i] # tok[i]

\* new contains old and at most one more document
AddsAtMostOne(old, new) == old \subseteq new /\ Cardinality(new \ old) <= 1

C23_Frame ==
    /\ [](/\ \A r \in Requests : Cardinality({ d \in test_runs : d._id = r }) <= 1
          /\ \A i \in TokenRequests :
                 Cardinality({ c \in api_tokens : c._id = "k" \o ToString(i) }) <= 1)
    /\ [][\A r \in Requests :
             IngestStep(r) =>
                 /\ api_tokens' = api_tokens /\ projects' = projects
                 /\ indexes' = indexes
                 /\ AddsAtMostOne(test_runs, test_runs')
                 /\ req[r].pc \in {"idle", "authenticated", "inserted"} =>
                        test_runs' = test_runs]_vars
    /\ [][\A i \in TokenRequests :
             TokenStep(i) =>
                 /\ test_runs' = test_runs /\ projects' = projects
                 /\ indexes' = indexes
                 /\ AddsAtMostOne(api_tokens, api_tokens')
                 /\ tok[i].pc = "idle" => api_tokens' = api_tokens]_vars

\* a credential was issued, a run was ingested with it, and a second ingest of
\* the run and a second issuance were served while both documents were stored
C23_Witness ==
    /\ Cardinality(api_tokens) = 2
    /\ Cardinality(test_runs) >= 1
    /\ \A r \in Requests : Done(r) /\ Attempted(r)
    /\ \E r \in Requests : IsCreated(r)

(***************************************************************************)
(* C24.  Created response content: the body the client receives with a    *)
(* 201 has the run_id, the environment and the summary of the payload the  *)
(* request submitted, each unchanged, and no duplicate property.           *)
(***************************************************************************)
C24_CreatedEcho ==
    \A r \in Requests :
        IsCreated(r) =>
            LET received == ResJson(req[r].response.body) IN
            /\ {"run_id", "environment", "summary"} \subseteq DOMAIN received
            /\ received.run_id = Get(req[r].body, "run_id")
            /\ received.environment = Get(req[r].body, "environment")
            /\ received.summary = Get(req[r].body, "summary")
            /\ "duplicate" \notin DOMAIN received

(***************************************************************************)
(* C25.  Credential-store fault during authentication: a request with a    *)
(* well-formed Bearer token whose credential lookup threw ends with 500    *)
(* (Internal Server Error), not with 401, whether the token is a stored    *)
(* one or not; it gets no project identity, is neither validated nor       *)
(* inserted and stores no run.                                             *)
(***************************************************************************)
WellFormedBearer(h) ==
    h.t = "string" /\ StartsWith(h.v, BearerPrefix) /\ Substring(h.v, 7) # << >>

C25_LookupFaultIsServerFault ==
    \A r \in Requests :
        (Arrived(r) /\ WellFormedBearer(req[r].header) /\ req[r].lookup = "threw") =>
            /\ Done(r) /\ Status(r) = 500
            /\ req[r].response.body.error = "Internal Server Error"
            /\ req[r].auth = NoAuth
            /\ ~Validated(r)
            /\ req[r].inserts = 0
            /\ \A d \in test_runs : d._id # r

\* the lookup threw for a request with a stored token and for one with an
\* unknown token and an invalid payload; both were answered 500
C25_Witness ==
    \E r1, r2 \in Requests :
        /\ req[r1].lookup = "threw" /\ PresentedToken(r1) = RawTokenA
        /\ Status(r1) = 500
        /\ req[r2].lookup = "threw" /\ PresentedToken(r2) = RawTokenX
        /\ HasErrors(validateTestRun(req[r2].body).errors)
        /\ Status(r2) = 500

(***************************************************************************)
(* C26.  Internal faults do not leak detail: a request whose insert failed *)
(* with a storage fault is answered 500 with the fixed error and message   *)
(* of the controller, whatever the fault; two requests that differ only in *)
(* the error the storage engine raised get the same response.              *)
(***************************************************************************)
InternalFault ==
    [status |-> 500,
     body |-> [error |-> "Internal Server Error",
               message |-> "Failed to ingest test run"]]

C26_FaultsDoNotLeak ==
    /\ \A r \in Requests :
           (Done(r) /\ req[r].dbOutcome = "fault") =>
               ResJson(req[r].response.body) = InternalFault.body
    /\ \A r1, r2 \in Requests :
           (/\ Done(r1) /\ req[r1].dbOutcome = "fault"
            /\ Done(r2) /\ req[r2].dbOutcome = "fault"
            /\ req[r1].header = req[r2].header /\ req[r1].body = req[r2].body) =>
               req[r1].response = req[r2].response

(***************************************************************************)
(* C27.  Name uniqueness under concurrency: of the create-organization     *)
(* requests with one name whose insert the store answered, in whatever     *)
(* order their steps interleave, exactly one is answered 201 (none when    *)
(* the name was taken before), every other 409 Conflict, and the store     *)
(* holds exactly one organization with the name; the same for the          *)
(* create-project requests with one (org_id, name).                        *)
(***************************************************************************)
\* the requests of this kind whose insert the store answered
OrgAnswered(kind) ==
    { i \in OrgRequests :
        /\ org[i].kind = kind /\ org[i].pc \in {"inserted", "done"}
        /\ org[i].dbOutcome \in {"inserted", "E11000"} }

\* the status the controller answers request i with
OrgStatus(i) ==
    IF org[i].pc = "done" THEN org[i].response.status
    ELSE CreatedResponse(org[i].kind, [_id |-> << >>, org_id |-> << >>, name |-> << >>],
                         org[i].error).status

\* of these requests for one key exactly one gets 201 (none when the key was
\* taken), the others 409
OneCreated(S, taken) ==
    /\ Cardinality({ i \in S : OrgStatus(i) = 201 }) = IF taken THEN 0 ELSE 1
    /\ \A i \in S : OrgStatus(i) \in {201, 409}

C27_NameUniqueness ==
    /\ \A b \in OrgBodies :
           LET S == { i \in OrgAnswered("organization") : org[i].body = b }
               n == Get(b, "name").v
           IN  S # {} =>
                   /\ OneCreated(S, \E d \in ExistingOrganizations : d.name = n)
                   /\ Cardinality({ d \in organizations : d.name = n }) = 1
    /\ \A b \in ProjectBodies :
           LET S == { i \in OrgAnswered("project") : org[i].body = b } IN
           S # {} =>
               /\ OneCreated(S, FALSE)
               /\ Cardinality({ d \in projects :
                                   /\ d.org_id = Get(b, "org_id").v
                                   /\ d.name = Get(b, "name").v }) = 1

(***************************************************************************)
(* C28.  The validator always returns a list: for every payload that is a  *)
(* JSON object, validateTestRun returns without throwing; a payload whose  *)
(* test_suites array, or the test_cases array of a suite, holds null or    *)
(* another element that is no object ends with 400 and a list of errors,   *)
(* and no request ends with 500 because of its payload.                    *)
(***************************************************************************)
\* an element of the array is no object
HoldsNonObject(a) == IsArray(a) /\ \E k \in DOMAIN a.v : a.v[k].t # "object"

HasNonObjectElement(body) ==
    LET suites == Get(body, "test_suites") IN
    \/ HoldsNonObject(suites)
    \/ /\ IsArray(suites)
       /\ \E k \in DOMAIN suites.v : HoldsNonObject(Get(suites.v[k], "test_cases"))

C28_ValidatorReturnsList ==
    \A r \in Requests :
        (req[r].auth # NoAuth /\ req[r].body.t = "object") =>
            /\ ~validateTestRun(req[r].body).threw
            /\ (PastValidation(r) /\ HasNonObjectElement(req[r].body)) =>
                   /\ Done(r) /\ Status(r) = 400
                   /\ req[r].response.body.details # << >>
            /\ Done(r) => Status(r) # 500

(***************************************************************************)
(* C29.  The uniqueness constraint is in place before serving: whenever    *)
(* connectDatabase has returned (the server is about to listen, or         *)
(* listens, or has taken requests), the unique index on test_runs          *)
(* (project_id, run_id) exists, whichever createIndex calls failed.        *)
(***************************************************************************)
C29_UniqueIndexBeforeServing ==
    /\ phase \in {"connected", "listening"} => UniqueRunIndex \in indexes
    /\ (\E r \in Requests : Arrived(r)) => UniqueRunIndex \in indexes

(***************************************************************************)
(* C30.  Ingest counters track outcomes exactly: in one server process     *)
(* test_runs_ingested is the number of requests answered Created and       *)
(* duplicate_runs_rejected the number answered Duplicate; the step that    *)
(* sends a Created or a Duplicate adds exactly one to its counter and      *)
(* nothing to the other, and a step that ends a request with 400, 401 or   *)
(* 500, like every other step, changes neither.                            *)
(***************************************************************************)
\* what a step adds to a counter
Added(counter) == metrics'[counter] - metrics[counter]

\* the requests the step answers with this outcome
Answers(outcome) ==
    { r \in Requests : ~Done(r) /\ req'[r].pc = "done" /\ Outcome(r)' = outcome }

C30_CountersTrackOutcomes ==
    /\ [](/\ metrics.test_runs_ingested =
                Cardinality({ r \in Requests : IsCreated(r) })
          /\ metrics.duplicate_runs_rejected =
                Cardinality({ r \in Requests : IsDuplicate(r) }))
    /\ [][/\ Added("test_runs_ingested") = Cardinality(Answers("Created"))
          /\ Added("duplicate_runs_rejected") = Cardinality(Answers("Duplicate"))
          /\ Cardinality(Answers("Created") \cup Answers("Duplicate")) <= 1]_vars

\* one request was answered Created, one Duplicate, and each counter is one
C30_Witness ==
    /\ \E r \in Requests : IsCreated(r)
    /\ \E r \in Requests : IsDuplicate(r)
    /\ metrics.test_runs_ingested = 1
    /\ metrics.duplicate_runs_rejected = 1

(***************************************************************************)
(* C31: start-up ordering of the MongoDB server.  The listener is started  *)
(* only by a step that finds connectDatabase completed, so every step of   *)
(* a request handler is taken while the database handle is set and getDb   *)
(* does not throw; a failed connection attempt ends the process from the   *)
(* starting phase, before it has listened, and an exited process never     *)
(* listens.                                                                *)
(***************************************************************************)
\* a step of a request handler: some request moves, and not because the
\* process was stopped under it
HandlerStep ==
    \E r \in Requests : req'[r] # req[r] /\ req'[r].pc # "aborted"

C31_StartupOrdering ==
    /\ [][(phase' = "listening" /\ phase # "listening") => phase = "connected"]_vars
    /\ [][HandlerStep => (phase = "listening" /\ ~getDbThrows)]_vars
    /\ [][(phase' = "exited" /\ phase # "exited") => phase = "starting"]_vars
    /\ [][phase = "exited" => phase' = "exited"]_vars

\* the server listens after a restart and has answered a request
C31_Witness ==
    /\ phase = "listening"
    /\ \E r \in Requests : req[r].pc = "aborted"
    /\ \E r \in Requests : req[r].pc = "done"

(***************************************************************************)
(* C32: the stored record equals the validated payload.  For every payload *)
(* that passes validation and is written by TestRun.create, the record has *)
(* environment and each of the six summary fields equal to the payload's   *)
(* values (the defaults 'unknown' and 0 never replace a validated value),  *)
(* and test_suites equal to the payload's array, or the empty array when   *)
(* the payload omits test_suites.                                          *)
(***************************************************************************)
\* the records a request wrote
RecordsOf(r) == { d \in test_runs : d._id = r }

PayloadSuites(r) ==
    IF Get(req[r].body, "test_suites") = Undefined
    THEN Arr(<< >>)
    ELSE Get(req[r].body, "test_suites")

C32_StoredEqualsPayload ==
    \A r \in Requests :
        req[r].dbOutcome = "inserted" =>
            /\ RecordsOf(r) # {}
            /\ \A d \in RecordsOf(r) :
                   /\ d.environment = Get(req[r].body, "environment")
                   /\ \A i \in DOMAIN SummaryFields :
                          Get(d.summary, SummaryFields[i]) =
                              Get(Get(req[r].body, "summary"), SummaryFields[i])
                   /\ d.test_suites = PayloadSuites(r)

\* a record written from a payload whose summary is all zeros, whose
\* environment is one space and which has no test_suites
C32_Witness ==
    \E r \in Requests :
        /\ req[r].dbOutcome = "inserted"
        /\ RecordsOf(r) # {}
        /\ Get(req[r].body, "environment") = Str(<<" ">>)
        /\ \A i \in DOMAIN SummaryFields :
               Get(Get(req[r].body, "summary"), SummaryFields[i]) = Num(0)
        /\ Get(req[r].body, "test_suites") = Undefined

(***************************************************************************)
(* C33: the credentials of one project share one key space.  When two      *)
(* different credentials are bound to one project, an ingest of a run_id   *)
(* under the first, answered before an ingest of the same run_id under the *)
(* second arrives, yields Created and then Duplicate, and the store holds  *)
(* one record for the project and run_id.                                  *)
(***************************************************************************)
\* q presented one credential and was answered before r arrived with another
\* credential of the same project and the same run_id
FollowsUnderOther(q, r) ==
    /\ q # r
    /\ Done(q) /\ Done(r)
    /\ StoreAnswered(q) /\ StoreAnswered(r)
    /\ PresentedToken(q) # PresentedToken(r)
    /\ RunKey(q) = RunKey(r)
    /\ ~req[q].keyBefore
    /\ req[r].priorCreated

C33_SharedKeySpace ==
    \A q, r \in Requests :
        FollowsUnderOther(q, r) =>
            /\ IsCreated(q)
            /\ IsDuplicate(r)
            /\ Cardinality(RunsWithKey(RunKey(r))) = 1

====
